---- MODULE Spec2Model ----
(***************************************************************************)
(* State-machine model of the generation pipeline of the Communications    *)
(* Builder (src/src/App.tsx) and of the generation client                  *)
(* (src/src/services/openai.ts).                                           *)
(*                                                                         *)
(* React semantics used by the model:                                      *)
(*   - every synchronous run of a handler (from the event, or from the     *)
(*     resumption of an await, up to the next await that needs the event   *)
(*     loop) is one atomic action;                                         *)
(*   - a handler reads the state values captured by the render in which    *)
(*     it was created; these values are stored in the in-flight task;      *)
(*   - set(v) overwrites the state, set(prev => f(prev)) is applied to the *)
(*     state current at the time of the call.                              *)
(* JavaScript strings are modelled as sequences of tokens: '' is << >>,    *)
(* concatenation is \o.  An optional value (T | null) is modelled as a set *)
(* with at most one element: null is {}.                                   *)
(***************************************************************************)
EXTENDS Integers, Sequences, FiniteSets, TLC

\* ----- bounds of the model ------------------------------------------------
NumTypes == 3        \* how many entries of the options table are configured
MaxEvents == 7       \* user events (clicks, key strokes) of one session
MaxTasks == 2        \* handlers that may be suspended at an await at once
MaxQuestions == 2    \* clarifying questions the analysis may return
MaxTime == 2         \* readings of Date.now() that differ from one another
MaxOverlapAt == 5    \* the latest user event that starts an operation while another is in flight
MaxCalls == 2        \* calls of the generation client made directly, one after another
MaxFiles == 2       \* files of one processFiles call
MaxRuns == 2        \* processFiles calls on the same list
MaxFields == 3      \* fields of a search request that carry a value
MaxWorkItems == 3   \* work items the issue tracker holds
MaxSearches == 2    \* searches of the import modal in flight

\* ----- configuration table (config/documentOptions) -----------------------
AllOptionIds ==
  <<"release-notes", "training-guide", "email", "quick-ref", "faq", "manual", "tech-guide">>

DOCUMENT_OPTIONS == SubSeq(AllOptionIds, 1, NumTypes)

OptionIds == {DOCUMENT_OPTIONS[i] : i \in 1..Len(DOCUMENT_OPTIONS)}

Label(t) ==
  CASE t = "release-notes" -> "Release Notes"
    [] t = "training-guide" -> "Training Guide"
    [] t = "email" -> "Email Announcement"
    [] t = "quick-ref" -> "Quick Reference Card"
    [] t = "faq" -> "FAQ Document"
    [] t = "manual" -> "User Manual"
    [] t = "tech-guide" -> "App Support Technical Guide"

DefaultOutputs == <<"release-notes", "training-guide">>

\* ----- generic helpers ----------------------------------------------------
null == {}

Some(v) == {v}

TheValue(o) == CHOOSE v \in o : TRUE

Range(s) == {s[i] : i \in 1..Len(s)}

Includes(s, x) == x \in Range(s)

\* Array.prototype.filter(id => id !== x)
Without(s, x) == SelectSeq(s, LAMBDA y : y # x)

RemoveAt(s, k) == SubSeq(s, 1, k - 1) \o SubSeq(s, k + 1, Len(s))

\* array indices are 0-based in the program
Indices(s) == 0..(Len(s) - 1)

\* String.prototype.trim on the modelled texts
Trim(s) == IF s \in {"", " "} THEN "" ELSE s

\* a JavaScript string value as a token sequence
Str(s) == IF s = "" THEN << >> ELSE <<s>>

\* ----- inputs -------------------------------------------------------------
ManualTexts == {"", " ", "Feature X launched"}

Answers == {"", " ", "yes"}

QuestionPool == <<"Who is the audience?", "When does it ship?">>

EditContents == {<<"<p>edited</p>">>}

\* bodies the text-generation service may answer with ("" is an empty body)
ResponseBodies == {"<p>doc</p>", ""}

\* errors the request to the service may fail with
RequestErrors == {"Network Error"}

ServiceReplies ==
  {[body |-> b] : b \in ResponseBodies} \cup {[fail |-> m] : m \in RequestErrors}

\* the replies the service may give to a request of the client called directly
ClientReplies ==
  ServiceReplies \cup {[fail |-> "Incorrect API key provided"]}

\* the replies drawn for the calls of the application's own batches
AppReplies == {r \in ServiceReplies : "body" \in DOMAIN r => r.body # ""}

\* a File: its name, the type the browser reports ('' when it knows none) and
\* the text its bytes decode to
TextFile == [name |-> "notes.txt", type |-> "text/plain", text |-> "Feature X launched"]

PdfFile == [name |-> "guide.pdf", type |-> "application/pdf", text |-> "%PDF-1.4"]

WordFile == [name |-> "spec.docx", type |-> "", text |-> "PK word"]

ExcelFile == [name |-> "old.xls", type |-> "application/vnd.ms-excel", text |-> "xls"]

SheetFile ==
  [name |-> "data.xlsx",
   type |-> "application/vnd.openxmlformats-officedocument.spreadsheetml.sheet",
   text |-> "PK sheet"]

ImageFile == [name |-> "shot.png", type |-> "image/png", text |-> "PNG"]

OtherFile == [name |-> "config.json", type |-> "application/json", text |-> "{}"]

EmptyFile == [name |-> "empty.txt", type |-> "", text |-> ""]

Files ==
  {TextFile, PdfFile, WordFile, ExcelFile, SheetFile, ImageFile, OtherFile, EmptyFile}

FileLists == {<< >>, <<TextFile>>}

\* ----- generation client (services/openai.ts) -----------------------------
\* String.prototype.includes('API key') on the modelled error messages
MentionsApiKey(m) ==
  m \in {"OpenAI API key not found. Please set VITE_OPENAI_API_KEY environment variable.",
         "Incorrect API key provided"}

\* getApiKey/createClient: the message thrown when the credential is missing
getApiKey(hasKey) ==
  IF hasKey THEN [thrown |-> FALSE]
  ELSE [thrown |-> TRUE,
        message |-> "OpenAI API key not found. Please set VITE_OPENAI_API_KEY environment variable."]

\* the catch block of generateTrainingDocument: every failure is rethrown
Rethrow(docType, m) ==
  IF MentionsApiKey(m)
  THEN [ok |-> FALSE,
        message |-> <<"OpenAI API key is missing or invalid. Please check your environment variables.">>]
  ELSE [ok |-> FALSE, message |-> <<"Failed to generate ", docType, ": ", m>>]

\* faulty variant: an empty body is returned as the content
generateTrainingDocumentUnchecked(docType, hasKey, reply) ==
  IF getApiKey(hasKey).thrown THEN Rethrow(docType, getApiKey(hasKey).message)
  ELSE IF "fail" \in DOMAIN reply THEN Rethrow(docType, reply.fail)
  ELSE [ok |-> TRUE, content |-> Str(reply.body)]

\* generateTrainingDocument(docType, sourceContent): what the returned promise
\* settles with, given the credential and the reply of the service.
\* [ok |-> TRUE, content] is a resolved promise, [ok |-> FALSE, message] a rejected one.
generateTrainingDocument(docType, hasKey, reply) ==
  IF getApiKey(hasKey).thrown THEN Rethrow(docType, getApiKey(hasKey).message)
  ELSE IF "fail" \in DOMAIN reply THEN Rethrow(docType, reply.fail)
  ELSE IF reply.body = "" THEN Rethrow(docType, "No content generated from OpenAI")
  ELSE [ok |-> TRUE, content |-> Str(reply.body)]

\* a request is sent to the service only when the client could be created
SendsRequest(hasKey) == ~getApiKey(hasKey).thrown

\* the catch blocks of enhanceTextWithAI and cleanupContentWithAI
RethrowAs(prefix, m) ==
  IF MentionsApiKey(m)
  THEN [ok |-> FALSE,
        message |-> <<"OpenAI API key is missing or invalid. Please check your environment variables.">>]
  ELSE [ok |-> FALSE, message |-> <<prefix, m>>]

\* enhanceTextWithAI(rawText): what the returned promise settles with
enhanceTextWithAI(hasKey, reply) ==
  IF getApiKey(hasKey).thrown
  THEN RethrowAs("Failed to enhance content: ", getApiKey(hasKey).message)
  ELSE IF "fail" \in DOMAIN reply THEN RethrowAs("Failed to enhance content: ", reply.fail)
  ELSE IF reply.body = ""
  THEN RethrowAs("Failed to enhance content: ", "No content generated from AI enhancement")
  ELSE [ok |-> TRUE, content |-> Str(reply.body)]

\* cleanupContentWithAI(htmlContent): what the returned promise settles with
cleanupContentWithAI(hasKey, reply) ==
  IF getApiKey(hasKey).thrown
  THEN RethrowAs("Failed to cleanup content: ", getApiKey(hasKey).message)
  ELSE IF "fail" \in DOMAIN reply THEN RethrowAs("Failed to cleanup content: ", reply.fail)
  ELSE IF reply.body = ""
  THEN RethrowAs("Failed to cleanup content: ", "No content generated from AI cleanup")
  ELSE [ok |-> TRUE, content |-> Str(reply.body)]

\* the value at index i of the array generateMultipleDocuments returns
\* (Promise.allSettled keeps the order of docTypes)
MultiResult(docTypes, settled, i) ==
  IF settled[i].ok
  THEN [type |-> docTypes[i], content |-> settled[i].content]
  ELSE [type |-> docTypes[i], content |-> << >>,
        error |-> IF settled[i].message = << >> THEN <<"Unknown error">> ELSE settled[i].message]

\* ----- per-document results of the orchestrator (App.tsx) -----------------
Pending == [pending |-> TRUE]

IsPending(r) == "pending" \in DOMAIN r

\* the async callback of selectedOutputs.map / additionalOutputs.map: the
\* object the per-document promise resolves with (it never rejects)
GenerationResult(docType, outcome, startTime, t) ==
  IF outcome.ok
  THEN [type |-> docType, content |-> outcome.content,
        generatedAt |-> t, durationMs |-> t - startTime]
  ELSE [type |-> docType, content |-> << >>,
        error |-> IF outcome.message = << >> THEN <<"Generation failed">> ELSE outcome.message,
        generatedAt |-> t, durationMs |-> t - startTime]

HasError(result) == "error" \in DOMAIN result /\ result.error # << >>

\* results.map(result => ...): conversion to the GeneratedDoc format
ToGeneratedDoc(result) ==
  [filename |-> Label(result.type),
   content |-> IF HasError(result)
               THEN <<"# Error generating ", Label(result.type), "\n\n">> \o result.error
               ELSE result.content,
   type |-> result.type,
   format |-> "markdown",
   generatedAt |-> result.generatedAt,
   durationMs |-> result.durationMs]

\* faulty variant: a failed result is dropped instead of becoming an error document
ToGeneratedDocsOfSuccesses(results) ==
  LET ok == SelectSeq(results, LAMBDA r : ~HasError(r))
  IN [i \in 1..Len(ok) |-> ToGeneratedDoc(ok[i])]

ToGeneratedDocs(results) == [i \in 1..Len(results) |-> ToGeneratedDoc(results[i])]

\* Promise.all(generationPromises): settled once no promise is pending; the
\* array is indexed like the array the promises were mapped from
\* faulty variant: a failed call counts as not settled
AllSettledWithoutError(res) == \A i \in 1..Len(res) : ~IsPending(res[i]) /\ ~HasError(res[i])

AllSettled(res) == \A i \in 1..Len(res) : ~IsPending(res[i])

\* setGenerationProgress(prev => ({ ...prev, [docType]: 'complete' }))
MarkComplete(prev, docType) ==
  [t \in DOMAIN prev \cup {docType} |-> IF t = docType THEN "complete" ELSE prev[t]]

\* processingProgress: every selected type 'processing'
ProcessingProgress(sel) == [t \in Range(sel) |-> "processing"]

\* ----- fileProcessor.ts ----------------------------------------------------
\* filename.split('.').pop()?.toLowerCase() on the modelled names
Extension(name) ==
  CASE name \in {"notes.txt", "empty.txt"} -> "txt"
    [] name = "guide.pdf" -> "pdf"
    [] name = "spec.docx" -> "docx"
    [] name = "old.xls" -> "xls"
    [] name = "data.xlsx" -> "xlsx"
    [] name = "shot.png" -> "png"
    [] name = "config.json" -> "json"
    [] OTHER -> ""

\* name.endsWith('.' + ext): the modelled names are in lower case
EndsWith(name, ext) == Extension(name) = ext

getFileTypeFromName(filename) ==
  LET ext == Extension(filename)
  IN CASE ext = "txt" -> "text/plain"
       [] ext = "pdf" -> "application/pdf"
       [] ext = "doc" -> "application/msword"
       [] ext = "docx" -> "application/vnd.openxmlformats-officedocument.wordprocessingml.document"
       [] ext = "xls" -> "application/vnd.ms-excel"
       [] ext = "xlsx" -> "application/vnd.openxmlformats-officedocument.spreadsheetml.sheet"
       [] ext = "png" -> "image/png"
       [] ext \in {"jpg", "jpeg"} -> "image/jpeg"
       [] OTHER -> "application/octet-stream"

\* fileType.includes(word) on the types that occur
TypeIncludes(fileType, word) ==
  word \in (CASE fileType = "text/plain" -> {"text"}
              [] fileType = "application/pdf" -> {"pdf"}
              [] fileType = "application/msword" -> {"word"}
              [] fileType = "application/vnd.openxmlformats-officedocument.wordprocessingml.document"
                   -> {"word", "document"}
              [] fileType = "application/vnd.ms-excel" -> {"excel"}
              [] fileType = "application/vnd.openxmlformats-officedocument.spreadsheetml.sheet"
                   -> {"spreadsheet", "document"}
              [] fileType \in {"image/png", "image/jpeg"} -> {"image"}
              [] OTHER -> {})

\* file.type || getFileTypeFromName(file.name)
FileTypeOf(file) == IF file.type # "" THEN file.type ELSE getFileTypeFromName(file.name)

\* the branch of processFile the file takes
Branch(file) ==
  LET fileType == FileTypeOf(file)
  IN IF TypeIncludes(fileType, "text") \/ EndsWith(file.name, "txt") THEN "text"
     ELSE IF TypeIncludes(fileType, "pdf") \/ EndsWith(file.name, "pdf") THEN "pdf"
     ELSE IF \/ TypeIncludes(fileType, "word") \/ TypeIncludes(fileType, "document")
             \/ EndsWith(file.name, "docx") \/ EndsWith(file.name, "doc") THEN "word"
     ELSE IF \/ TypeIncludes(fileType, "spreadsheet") \/ TypeIncludes(fileType, "excel")
             \/ EndsWith(file.name, "xlsx") \/ EndsWith(file.name, "xls") THEN "excel"
     ELSE IF TypeIncludes(fileType, "image") THEN "image"
     ELSE "fallback"

\* whether processFile calls readTextFile for the file
ReadsFile(file) == Branch(file) \in {"text", "fallback"}

\* readTextFile: resolve(text || ''), or reject when the reader reports an error
readTextFile(file, readFails) ==
  IF readFails THEN [ok |-> FALSE] ELSE [ok |-> TRUE, text |-> Str(file.text)]

Placeholder(branch, name) ==
  CASE branch = "pdf" ->
         <<"[PDF Document: ", name, "]\n\nNote: PDF text extraction requires pdf.js library. For this MVP, please copy and paste the PDF content or upload as .txt file.">>
    [] branch = "word" ->
         <<"[Word Document: ", name, "]\n\nNote: Word document extraction requires mammoth.js library. For this MVP, please copy and paste the document content or upload as .txt file.">>
    [] branch = "excel" ->
         <<"[Excel Spreadsheet: ", name, "]\n\nNote: Excel extraction requires xlsx library. For this MVP, please copy and paste the spreadsheet content or upload as .txt/.csv file.">>
    [] branch = "image" ->
         <<"[Image: ", name, "]\n\nNote: OCR for images requires additional libraries. Please provide a text description of the image content.">>

\* the result of the catch block
ErrorStub(name) == <<"Error reading file: ", name>>

\* faulty variant: a failed read is passed on to the caller
processFileRethrowing(file, readFails) ==
  IF ReadsFile(file) /\ readFails
  THEN [rejected |-> TRUE]
  ELSE [filename |-> file.name,
        content |-> IF ReadsFile(file) THEN Str(file.text)
                    ELSE Placeholder(Branch(file), file.name),
        type |-> FileTypeOf(file)]

\* readFails: whether the reader reports an error if the file is read
processFile(file, readFails) ==
  LET read == readTextFile(file, readFails)
  IN [filename |-> file.name,
      content |-> IF ReadsFile(file)
                  THEN IF read.ok THEN read.text ELSE ErrorStub(file.name)
                  ELSE Placeholder(Branch(file), file.name),
      type |-> FileTypeOf(file)]

\* `=== ${fc.filename} ===\n\n${fc.content}\n\n`
FileSection(fc) == <<"=== ", fc.filename, " ===\n\n">> \o fc.content \o <<"\n\n">>

\* faulty variant: the sections are joined latest first
JoinSectionsReversed(fcs) ==
  LET RECURSIVE Join(_)
      Join(n) == IF n = 0 THEN << >>
                 ELSE IF n = 1 THEN FileSection(fcs[1])
                 ELSE FileSection(fcs[n]) \o <<"\n---\n\n">> \o Join(n - 1)
  IN Join(Len(fcs))

\* fileContents.map(...).join('\n---\n\n')
RECURSIVE JoinSections(_)
JoinSections(fcs) ==
  IF Len(fcs) = 0 THEN << >>
  ELSE IF Len(fcs) = 1 THEN FileSection(fcs[1])
  ELSE FileSection(fcs[1]) \o <<"\n---\n\n">> \o JoinSections(Tail(fcs))

\* what processFiles resolves to once every processFile has settled
ProcessFilesResult(fileContents) ==
  [combinedContent |-> JoinSections(fileContents), fileContents |-> fileContents]

\* processFiles(files).combinedContent when every read succeeds
processFiles(fs) ==
  ProcessFilesResult([i \in 1..Len(fs) |-> processFile(fs[i], FALSE)]).combinedContent

\* handleWizardContinue: the content handed to generation
RECURSIVE AnswerSections(_)
AnswerSections(qs) ==
  IF Len(qs) = 0 THEN << >>
  ELSE <<"**", qs[1].question, "**\n", qs[1].answer, "\n\n">> \o AnswerSections(Tail(qs))

\* faulty variant: an answer of white space only counts as an answer
EnhancedContentUntrimmed(content, questions) ==
  LET answered == SelectSeq(questions, LAMBDA q : q.answer # "")
  IN IF Len(answered) > 0
     THEN content \o <<"\n\n## Additional Context\n\n">> \o AnswerSections(answered)
     ELSE content

EnhancedContent(content, questions) ==
  LET answered == SelectSeq(questions, LAMBDA q : Trim(q.answer) # "")
  IN IF Len(answered) > 0
     THEN content \o <<"\n\n## Additional Context\n\n">> \o AnswerSections(answered)
     ELSE content

\* getAvailableTypes()
getAlreadyGeneratedTypes(docs) == [i \in 1..Len(docs) |-> docs[i].type]

getAvailableTypes(docs) ==
  SelectSeq(DOCUMENT_OPTIONS, LAMBDA id : ~Includes(getAlreadyGeneratedTypes(docs), id))

\* ----- state --------------------------------------------------------------
VARIABLES
  step, files, manualText, selectedOutputs, generatedDocs, error,
  editingIndex, isEditorOpen, generationProgress, selectedForDownload,
  wizardQuestions, sourceContent, showAnalysisModal, regeneratingIndex,
  showAddMoreModal, additionalOutputs, isGeneratingMore, generatingTypes,
  hasApiKey,   \* import.meta.env.VITE_OPENAI_API_KEY is set (fixed by the build)
  tasks,       \* handlers suspended at an await, with the values they captured
  now,         \* Date.now(): a logical clock, read at every generation reply
  events,      \* the number of user events handled so far
  multi,       \* a direct call of generateMultipleDocuments (not made by App.tsx)
  lastBatch,   \* history variable: the arguments of the run's proceedWithGeneration call
  ev           \* history variable: the last step taken

formVars == <<files, manualText, selectedOutputs>>

editorVars == <<editingIndex, isEditorOpen>>

wizardVars == <<wizardQuestions, sourceContent, showAnalysisModal>>

moreVars == <<showAddMoreModal, additionalOutputs, isGeneratingMore, generatingTypes>>

docVars == <<generatedDocs, generationProgress, selectedForDownload>>

envVars == <<hasApiKey, multi>>

vars ==
  <<step, files, manualText, selectedOutputs, generatedDocs, error, editingIndex,
    isEditorOpen, generationProgress, selectedForDownload, wizardQuestions,
    sourceContent, showAnalysisModal, regeneratingIndex, showAddMoreModal,
    additionalOutputs, isGeneratingMore, generatingTypes, hasApiKey, tasks, now,
    events, multi, lastBatch, ev>>

EmptyProgress == [t \in {} |-> "pending"]

\* the useState initial values of App
InitApp ==
  /\ step = "upload"
  /\ files = << >>
  /\ manualText = ""
  /\ selectedOutputs = DefaultOutputs
  /\ generatedDocs = << >>
  /\ error = null
  /\ editingIndex = null
  /\ isEditorOpen = FALSE
  /\ generationProgress = EmptyProgress
  /\ selectedForDownload = {}
  /\ wizardQuestions = << >>
  /\ sourceContent = << >>
  /\ showAnalysisModal = FALSE
  /\ regeneratingIndex = null
  /\ showAddMoreModal = FALSE
  /\ additionalOutputs = << >>
  /\ isGeneratingMore = FALSE
  /\ generatingTypes = << >>
  /\ tasks = << >>
  /\ now = 0
  /\ events = 0
  /\ lastBatch = [sel |-> << >>, content |-> << >>]
  /\ ev = [kind |-> "init"]

\* Behaviours either drive the App (multi.pc = "unused") or call the exported
\* generateMultipleDocuments directly (multi.pc = "idle" initially).
Init ==
  /\ InitApp
  /\ hasApiKey \in BOOLEAN
  /\ multi \in {[pc |-> "unused"], [pc |-> "idle"]}

\* the component tree is rendered: the props of the editor modal read
\* generatedDocs[editingIndex].content on every render
Rendered ==
  /\ multi.pc = "unused"
  /\ editingIndex # null => TheValue(editingIndex) < Len(generatedDocs)

CanSuspend ==
  /\ Len(tasks) < MaxTasks
  /\ tasks # << >> => events < MaxOverlapAt

\* Date.now() at a settlement: later readings are never smaller
Tick == IF now < MaxTime THEN now + 1 ELSE now

\* a handler runs from a user event: a control that is rendered was operated
UserEvent ==
  /\ Rendered
  /\ events < MaxEvents
  /\ events' = events + 1

\* A modal overlay covers the page (the overlay of the add-more modal takes the
\* clicks outside the dialog, App.tsx:1117): while a modal is shown, only the
\* controls of that modal are operated.
NoModal == ~showAnalysisModal /\ ~showAddMoreModal /\ ~isEditorOpen

PageEvent == UserEvent /\ NoModal

\* the row of the document being regenerated lies under its own overlay
RowOperable(index) == regeneratingIndex # Some(index)

\* ----- upload form --------------------------------------------------------
handleFilesSelected ==
  /\ PageEvent /\ step = "upload"
  /\ \E fs \in FileLists : files' = fs
  /\ error' = null
  /\ ev' = [kind |-> "ui"]
  /\ UNCHANGED <<step, manualText, selectedOutputs, docVars, editorVars, wizardVars,
                 regeneratingIndex, moreVars, envVars, tasks, now, lastBatch>>

handleRemoveFile ==
  /\ PageEvent /\ step = "upload"
  /\ \E i \in Indices(files) : files' = RemoveAt(files, i + 1)
  /\ ev' = [kind |-> "ui"]
  /\ UNCHANGED <<step, manualText, selectedOutputs, error, docVars, editorVars,
                 wizardVars, regeneratingIndex, moreVars, envVars, tasks, now, lastBatch>>

setManualText ==
  /\ PageEvent /\ step = "upload"
  /\ \E t \in ManualTexts : manualText' = t
  /\ ev' = [kind |-> "ui"]
  /\ UNCHANGED <<step, files, selectedOutputs, error, docVars, editorVars,
                 wizardVars, regeneratingIndex, moreVars, envVars, tasks, now, lastBatch>>

\* faulty variant: the type is added without looking for it in the selection
ToggleInAdding(prev, id) == Append(prev, id)

ToggleIn(prev, id) == IF Includes(prev, id) THEN Without(prev, id) ELSE Append(prev, id)

handleOutputToggle ==
  /\ PageEvent /\ step = "upload"
  /\ \E id \in OptionIds : selectedOutputs' = ToggleIn(selectedOutputs, id)
  /\ ev' = [kind |-> "ui"]
  /\ UNCHANGED <<step, files, manualText, error, docVars, editorVars, wizardVars,
                 regeneratingIndex, moreVars, envVars, tasks, now, lastBatch>>

CheckAll(sel) == IF Len(sel) = Len(DOCUMENT_OPTIONS) THEN << >> ELSE DOCUMENT_OPTIONS

handleCheckAll ==
  /\ PageEvent /\ step = "upload"
  /\ selectedOutputs' = CheckAll(selectedOutputs)
  /\ ev' = [kind |-> "ui"]
  /\ UNCHANGED <<step, files, manualText, error, docVars, editorVars, wizardVars,
                 regeneratingIndex, moreVars, envVars, tasks, now, lastBatch>>

\* ----- suspended handlers -------------------------------------------------
\* k = 0: the handler runs from a user event and has no entry in tasks yet;
\* k > 0: the handler resumes from tasks[k].
\* Every task carries a mark, stale, that no handler reads: it records that
\* handleReset has run since the task was started.
Started(t) == t @@ [stale |-> FALSE]

SetTask(k, t) ==
  IF k = 0 THEN Append(tasks, Started(t))
  ELSE [tasks EXCEPT ![k] = t @@ [stale |-> tasks[k].stale]]

DropTask(k) == IF k = 0 THEN tasks ELSE RemoveAt(tasks, k)

\* ----- analysis outcomes (categorizeFeatures, generateClarifyingQuestions) -
Organized(content) == <<"## Feature 1\n">> \o content

\* the result of categorizeFeatures when the categorization itself has failed:
\* the content as it was given, reported as a single feature
CategorizeFallback(content) ==
  [hasMultipleFeatures |-> FALSE, categorizedContent |-> content, failed |-> TRUE]

CategorizeOutcomes(content) ==
  {[hasMultipleFeatures |-> FALSE, categorizedContent |-> content, failed |-> FALSE],
   [hasMultipleFeatures |-> TRUE, categorizedContent |-> Organized(content), failed |-> FALSE],
   CategorizeFallback(content)}

QuestionOutcomes ==
  {[thrown |-> TRUE, message |-> "Network Error"]}
    \cup {[thrown |-> FALSE, questions |-> SubSeq(QuestionPool, 1, n)] : n \in 0..MaxQuestions}

\* without a credential no question can come back: the call fails or yields none
NoKeyQuestionOutcomes ==
  {[thrown |-> TRUE,
    message |-> "OpenAI API key is missing or invalid. Please check your environment variables."],
   [thrown |-> FALSE, questions |-> << >>]}

\* ----- proceedWithGeneration ----------------------------------------------
RECURSIVE MarkEach(_, _)
MarkEach(prev, sel) ==
  IF Len(sel) = 0 THEN prev ELSE MarkEach(MarkComplete(prev, sel[1]), Tail(sel))

\* the arrays built by the map calls when every call is rejected at once
RejectedAtOnce(sel) ==
  [i \in 1..Len(sel) |->
     GenerationResult(sel[i], generateTrainingDocument(sel[i], hasApiKey, [body |-> ""]), now, now)]

\* faulty variant: the documents are listed latest first
BatchDocsReversed(results) ==
  [i \in 1..Len(results) |-> ToGeneratedDoc(results[Len(results) + 1 - i])]

\* the tail of proceedWithGeneration, after Promise.all has resolved
BatchDocs(results) == ToGeneratedDocs(results)

SelectAllDocs(docs) == Indices(docs)

\* failed: the indices of the calls that threw; last: the index of the call
\* that settled last; origin: the caller of proceedWithGeneration when the
\* batch is finished within the run that started it
FinishBatch(sel, results, progress, failed, last, origin) ==
  /\ generationProgress' = progress
  /\ generatedDocs' = BatchDocs(results)
  /\ selectedForDownload' = SelectAllDocs(BatchDocs(results))
  /\ step' = "preview"
  /\ ev' = [kind |-> "batchDone", sel |-> sel, results |-> results,
            failed |-> failed, last |-> last, origin |-> origin]

\* constrains error, step, docVars, tasks, lastBatch, ev
ProceedWithGeneration(k, content, sel, origin) ==
  /\ error' = null
  /\ lastBatch' = [sel |-> sel, content |-> content]
  /\ IF SendsRequest(hasApiKey) /\ Len(sel) > 0
     THEN /\ step' = "processing"
          /\ generationProgress' = ProcessingProgress(sel)
          /\ tasks' = SetTask(k, [kind |-> "batch", sel |-> sel, content |-> content,
                                  start |-> now, res |-> [i \in 1..Len(sel) |-> Pending],
                                  failed |-> {}])
          /\ ev' = [kind |-> "batchStart", sel |-> sel, content |-> content,
                    origin |-> origin]
          /\ UNCHANGED <<generatedDocs, selectedForDownload>>
     ELSE /\ FinishBatch(sel, RejectedAtOnce(sel), MarkEach(ProcessingProgress(sel), sel),
                         1..Len(sel), Len(sel), origin)
          /\ tasks' = DropTask(k)

\* ----- handleGenerate -----------------------------------------------------
\* faulty variant: a single question does not open the wizard
ShowsWizardFromTwo(questions) == Len(questions) > 1

\* questions.length > 0
ShowsWizard(questions) == Len(questions) > 0

\* questions.map(q => ({ question: q, answer: '' }))
WizardEntries(questions) ==
  [i \in 1..Len(questions) |-> [question |-> questions[i], answer |-> ""]]

\* after generateClarifyingQuestions has settled; constrains showAnalysisModal,
\* wizardQuestions, error, step, docVars, tasks, ev
AfterQuestions(k, content, sel, outcome, err0) ==
  /\ showAnalysisModal' = FALSE
  /\ IF outcome.thrown
     THEN /\ error' = Some(IF outcome.message = ""
                           THEN "Failed to analyze content. Please try again."
                           ELSE outcome.message)
          /\ tasks' = DropTask(k)
          /\ ev' = [kind |-> "analysisFailed"]
          /\ UNCHANGED <<step, wizardQuestions, docVars, lastBatch>>
     ELSE IF ShowsWizard(outcome.questions)
     THEN /\ wizardQuestions' = WizardEntries(outcome.questions)
          /\ step' = "wizard"
          /\ error' = err0
          /\ tasks' = DropTask(k)
          /\ ev' = [kind |-> "wizardShown", asked |-> outcome.questions]
          /\ UNCHANGED <<docVars, lastBatch>>
     ELSE /\ ProceedWithGeneration(k, content, sel,
                                   [from |-> "analysis", asked |-> outcome.questions])
          /\ UNCHANGED wizardQuestions

\* after setSourceContent(categorizedContent); constrains the same and not
\* sourceContent; categorized: how categorizeFeatures has ended
\* ("single", "multiple" or "failed"), kept in ev only
RequestQuestions(k, content, sel, err0, modal0, categorized) ==
  IF hasApiKey
  THEN /\ tasks' = SetTask(k, [kind |-> "analysis", pc |-> "questions",
                               content |-> content, sel |-> sel])
       /\ error' = err0
       /\ showAnalysisModal' = modal0
       /\ ev' = [kind |-> "analysis", categorized |-> categorized]
       /\ UNCHANGED <<step, wizardQuestions, docVars, lastBatch>>
  ELSE \E outcome \in NoKeyQuestionOutcomes : AfterQuestions(k, content, sel, outcome, err0)

\* faulty variant: a failed categorization ends the analysis like a failed
\* questions call
AfterCategorizeAborting(k, outcome, sel, err0, modal0) ==
  IF outcome.failed
  THEN /\ showAnalysisModal' = FALSE
       /\ error' = Some("Failed to analyze content. Please try again.")
       /\ tasks' = DropTask(k)
       /\ ev' = [kind |-> "analysisFailed", categorized |-> "failed"]
       /\ UNCHANGED <<step, wizardQuestions, sourceContent, docVars, lastBatch>>
  ELSE IF outcome.hasMultipleFeatures
  THEN /\ tasks' = SetTask(k, [kind |-> "analysis", pc |-> "delay",
                               content |-> outcome.categorizedContent, sel |-> sel])
       /\ error' = err0
       /\ showAnalysisModal' = modal0
       /\ ev' = [kind |-> "analysis"]
       /\ UNCHANGED <<step, wizardQuestions, sourceContent, docVars, lastBatch>>
  ELSE /\ sourceContent' = outcome.categorizedContent
       /\ RequestQuestions(k, outcome.categorizedContent, sel, err0, modal0, "single")

\* after categorizeFeatures has settled
AfterCategorize(k, outcome, sel, err0, modal0) ==
  IF outcome.hasMultipleFeatures
  THEN /\ tasks' = SetTask(k, [kind |-> "analysis", pc |-> "delay",
                               content |-> outcome.categorizedContent, sel |-> sel])
       /\ error' = err0
       /\ showAnalysisModal' = modal0
       /\ ev' = [kind |-> "analysis"]
       /\ UNCHANGED <<step, wizardQuestions, sourceContent, docVars, lastBatch>>
  ELSE /\ sourceContent' = outcome.categorizedContent
       /\ RequestQuestions(k, outcome.categorizedContent, sel, err0, modal0,
                           IF outcome.failed THEN "failed" ELSE "single")

\* from the combined content on
Categorize(k, combinedContent, sel, err0, modal0) ==
  IF hasApiKey
  THEN /\ tasks' = SetTask(k, [kind |-> "analysis", pc |-> "categorize",
                               content |-> combinedContent, sel |-> sel])
       /\ error' = err0
       /\ showAnalysisModal' = modal0
       /\ ev' = [kind |-> "analysis"]
       /\ UNCHANGED <<step, wizardQuestions, sourceContent, docVars, lastBatch>>
  ELSE AfterCategorize(k, CategorizeFallback(combinedContent), sel, err0, modal0)

\* faulty variant: the pasted text is not trimmed
HasSourceUntrimmed == Len(files) > 0 \/ manualText # ""

\* !(files.length === 0 && !manualText.trim())
HasSource == Len(files) > 0 \/ Trim(manualText) # ""

\* faulty variant: the files are read only when no text is pasted
UsesFilesUnlessText == Len(files) > 0 /\ Trim(manualText) = ""

\* files.length > 0: the content comes from the files, else from the pasted text
UsesFiles == Len(files) > 0

handleGenerate ==
  /\ PageEvent /\ step = "upload"
  /\ IF ~HasSource
     THEN /\ error' = Some("Please upload files or enter content to generate documents")
          /\ ev' = [kind |-> "refused"]
          /\ UNCHANGED <<step, docVars, wizardVars, tasks, lastBatch>>
     ELSE IF Len(selectedOutputs) = 0
     THEN /\ error' = Some("Please select at least one output type")
          /\ ev' = [kind |-> "refused"]
          /\ UNCHANGED <<step, docVars, wizardVars, tasks, lastBatch>>
     ELSE IF UsesFiles
     THEN /\ CanSuspend
          /\ tasks' = SetTask(0, [kind |-> "analysis", pc |-> "files",
                                  files |-> files, sel |-> selectedOutputs])
          /\ error' = null
          /\ showAnalysisModal' = TRUE
          /\ ev' = [kind |-> "analysis"]
          /\ UNCHANGED <<step, wizardQuestions, sourceContent, docVars, lastBatch>>
     ELSE /\ CanSuspend
          /\ Categorize(0, Str(manualText), selectedOutputs, null, TRUE)
  /\ UNCHANGED <<formVars, editorVars, regeneratingIndex, moreVars, envVars, now>>

IsAt(k, pc) == tasks[k].kind = "analysis" /\ tasks[k].pc = pc

FilesRead ==
  \E k \in 1..Len(tasks) :
    /\ IsAt(k, "files")
    /\ Categorize(k, processFiles(tasks[k].files), tasks[k].sel, error, showAnalysisModal)
    /\ UNCHANGED <<formVars, editorVars, regeneratingIndex, moreVars, envVars, now, events>>

CategorizeSettles ==
  \E k \in 1..Len(tasks) :
    /\ IsAt(k, "categorize")
    /\ \E outcome \in CategorizeOutcomes(tasks[k].content) :
         AfterCategorize(k, outcome, tasks[k].sel, error, showAnalysisModal)
    /\ UNCHANGED <<formVars, editorVars, regeneratingIndex, moreVars, envVars, now, events>>

DelayElapses ==
  \E k \in 1..Len(tasks) :
    /\ IsAt(k, "delay")
    /\ sourceContent' = tasks[k].content
    /\ RequestQuestions(k, tasks[k].content, tasks[k].sel, error, showAnalysisModal,
                        "multiple")
    /\ UNCHANGED <<formVars, editorVars, regeneratingIndex, moreVars, envVars, now, events>>

QuestionsSettle ==
  \E k \in 1..Len(tasks) :
    /\ IsAt(k, "questions")
    /\ \E outcome \in QuestionOutcomes :
         AfterQuestions(k, tasks[k].content, tasks[k].sel, outcome, error)
    /\ UNCHANGED <<formVars, editorVars, regeneratingIndex, moreVars, envVars, now,
                   events, sourceContent>>

\* ----- wizard -------------------------------------------------------------
handleWizardAnswerChange ==
  /\ PageEvent /\ step = "wizard"
  /\ \E i \in 1..Len(wizardQuestions), a \in Answers :
       wizardQuestions' = [wizardQuestions EXCEPT ![i].answer = a]
  /\ ev' = [kind |-> "ui"]
  /\ UNCHANGED <<step, formVars, error, docVars, editorVars, sourceContent,
                 showAnalysisModal, regeneratingIndex, moreVars, envVars, tasks, now, lastBatch>>

handleSkipWizard ==
  /\ PageEvent /\ step = "wizard"
  /\ CanSuspend
  /\ ProceedWithGeneration(0, sourceContent, selectedOutputs, [from |-> "skip"])
  /\ UNCHANGED <<formVars, editorVars, wizardVars, regeneratingIndex, moreVars,
                 envVars, now>>

handleWizardContinue ==
  /\ PageEvent /\ step = "wizard"
  /\ CanSuspend
  /\ ProceedWithGeneration(0, EnhancedContent(sourceContent, wizardQuestions),
                           selectedOutputs, [from |-> "continue"])
  /\ UNCHANGED <<formVars, editorVars, wizardVars, regeneratingIndex, moreVars,
                 envVars, now>>

\* ----- a reply to one generation call of the initial batch ----------------
BatchCallSettles ==
  \E k \in 1..Len(tasks) :
    /\ tasks[k].kind = "batch"
    /\ now' = Tick
    /\ \E i \in 1..Len(tasks[k].sel), reply \in AppReplies :
         LET t == tasks[k]
             outcome == generateTrainingDocument(t.sel[i], hasApiKey, reply)
             result == GenerationResult(t.sel[i], outcome, t.start, now')
             res == [t.res EXCEPT ![i] = result]
             failed == IF outcome.ok THEN t.failed ELSE t.failed \cup {i}
             progress == MarkComplete(generationProgress, t.sel[i])
         IN /\ IsPending(t.res[i])
            /\ IF AllSettled(res)
               THEN /\ FinishBatch(t.sel, res, progress, failed, i, [from |-> "settled"])
                    /\ tasks' = RemoveAt(tasks, k)
               ELSE /\ generationProgress' = progress
                    /\ tasks' = [tasks EXCEPT ![k].res = res, ![k].failed = failed]
                    /\ ev' = [kind |-> "callSettled", type |-> t.sel[i]]
                    /\ UNCHANGED <<step, generatedDocs, selectedForDownload>>
    /\ UNCHANGED <<formVars, error, editorVars, wizardVars, regeneratingIndex, moreVars,
                   envVars, events, lastBatch>>

\* ----- handleReset --------------------------------------------------------
handleReset ==
  /\ PageEvent
  /\ step' = "upload"
  /\ files' = << >>
  /\ manualText' = ""
  /\ selectedOutputs' = DefaultOutputs
  /\ generatedDocs' = << >>
  /\ error' = null
  /\ generationProgress' = EmptyProgress
  /\ selectedForDownload' = {}
  /\ editingIndex' = null
  /\ isEditorOpen' = FALSE
  /\ wizardQuestions' = << >>
  /\ sourceContent' = << >>
  /\ ev' = [kind |-> "reset"]
  /\ lastBatch' = [sel |-> << >>, content |-> << >>]
  /\ tasks' = [k \in 1..Len(tasks) |-> [tasks[k] EXCEPT !.stale = TRUE]]
  /\ UNCHANGED <<showAnalysisModal, regeneratingIndex, moreVars, envVars, now>>

\* ----- review: selection and editing --------------------------------------
ToggleIndex(prev, index) == IF index \in prev THEN prev \ {index} ELSE prev \cup {index}

toggleDownloadSelection ==
  /\ PageEvent /\ step = "preview"
  /\ \E index \in Indices(generatedDocs) :
       /\ RowOperable(index)
       /\ selectedForDownload' = ToggleIndex(selectedForDownload, index)
  /\ ev' = [kind |-> "ui"]
  /\ UNCHANGED <<step, formVars, generatedDocs, generationProgress, error, editorVars,
                 wizardVars, regeneratingIndex, moreVars, envVars, tasks, now, lastBatch>>

toggleSelectAll ==
  /\ PageEvent /\ step = "preview"
  /\ selectedForDownload' =
       IF Cardinality(selectedForDownload) = Len(generatedDocs) THEN {}
       ELSE Indices(generatedDocs)
  /\ ev' = [kind |-> "ui"]
  /\ UNCHANGED <<step, formVars, generatedDocs, generationProgress, error, editorVars,
                 wizardVars, regeneratingIndex, moreVars, envVars, tasks, now, lastBatch>>

handleOpenEditor ==
  /\ PageEvent /\ step = "preview"
  /\ \E index \in Indices(generatedDocs) :
       /\ RowOperable(index)
       /\ editingIndex' = Some(index)
  /\ isEditorOpen' = TRUE
  /\ ev' = [kind |-> "ui"]
  /\ UNCHANGED <<step, formVars, docVars, error, wizardVars, regeneratingIndex, moreVars,
                 envVars, tasks, now, lastBatch>>

\* an element the array does not hold: reading it yields undefined and
\* { ...undefined } is an object without fields; an absent field is written
\* "undefined", an absent number -1
UndefinedDoc ==
  [filename |-> "undefined", content |-> << >>, type |-> "undefined",
   format |-> "undefined", generatedAt |-> -1, durationMs |-> -1]

\* faulty variant: the saved document is stamped like a regenerated one
SavedDocsStamped(docs, index, newContent) ==
  [docs EXCEPT ![index + 1] = [@ EXCEPT !.content = newContent, !.generatedAt = 0]]

\* updatedDocs[editingIndex] = { ...updatedDocs[editingIndex], content }: an
\* index behind the end of the array extends the array up to it
SavedDocs(docs, index, newContent) ==
  IF index < Len(docs) THEN [docs EXCEPT ![index + 1].content = newContent]
  ELSE docs \o [i \in 1..(index - Len(docs)) |-> UndefinedDoc]
            \o <<[UndefinedDoc EXCEPT !.content = newContent]>>

\* the Save button of the editor modal: onSave(html); onClose()
handleSaveEdit ==
  /\ UserEvent /\ isEditorOpen
  /\ \E newContent \in EditContents :
       IF editingIndex # null
       THEN /\ generatedDocs' = SavedDocs(generatedDocs, TheValue(editingIndex), newContent)
            /\ ev' = [kind |-> "editSaved", index |-> TheValue(editingIndex)]
       ELSE /\ ev' = [kind |-> "ui"]
            /\ UNCHANGED generatedDocs
  /\ isEditorOpen' = FALSE
  /\ UNCHANGED <<step, formVars, generationProgress, selectedForDownload, error,
                 editingIndex, wizardVars, regeneratingIndex, moreVars, envVars, tasks, now, lastBatch>>

closeEditor ==
  /\ UserEvent /\ isEditorOpen
  /\ isEditorOpen' = FALSE
  /\ ev' = [kind |-> "ui"]
  /\ UNCHANGED <<step, formVars, docVars, error, editingIndex, wizardVars,
                 regeneratingIndex, moreVars, envVars, tasks, now, lastBatch>>

\* ----- handleRegenerateArtifact -------------------------------------------
RegeneratedDocs(docs, index, newContent, t, startTime) ==
  [docs EXCEPT ![index + 1] =
     [@ EXCEPT !.content = newContent, !.generatedAt = t, !.durationMs = t - startTime]]

handleRegenerateArtifact ==
  /\ PageEvent /\ step = "preview"
  /\ \E index \in Indices(generatedDocs) :
       /\ RowOperable(index)
       /\ IF SendsRequest(hasApiKey)
          THEN /\ CanSuspend
               /\ regeneratingIndex' = Some(index)
               /\ tasks' = SetTask(0, [kind |-> "regen", index |-> index,
                                       docs |-> generatedDocs, content |-> sourceContent,
                                       start |-> now])
               /\ ev' = [kind |-> "regenStart", index |-> index, content |-> sourceContent]
          ELSE /\ regeneratingIndex' = null
               /\ ev' = [kind |-> "regenFailed", index |-> index]
               /\ UNCHANGED tasks
  /\ UNCHANGED <<step, formVars, docVars, error, editorVars, wizardVars, moreVars,
                 envVars, now, lastBatch>>

\* faulty variant: a failed call leaves an error placeholder in the document
RegenerationResultWithPlaceholder(t, outcome, time) ==
  RegeneratedDocs(t.docs, t.index,
                  IF outcome.ok THEN outcome.content ELSE <<"Error generating document">>,
                  time, t.start)

\* the list after the call of task t has settled: the try block writes the
\* captured list back with the new content, the catch block only shows a toast
RegenerationResult(t, outcome, time) ==
  IF outcome.ok THEN RegeneratedDocs(t.docs, t.index, outcome.content, time, t.start)
  ELSE generatedDocs

RegenSettles ==
  \E k \in 1..Len(tasks) :
    /\ tasks[k].kind = "regen"
    /\ now' = Tick
    /\ \E reply \in AppReplies :
         LET t == tasks[k]
             outcome == generateTrainingDocument(t.docs[t.index + 1].type, hasApiKey, reply)
         IN /\ generatedDocs' = RegenerationResult(t, outcome, now')
            /\ ev' = [kind |-> IF outcome.ok THEN "regenDone" ELSE "regenFailed",
                      index |-> t.index]
    /\ regeneratingIndex' = null
    /\ tasks' = RemoveAt(tasks, k)
    /\ UNCHANGED <<step, formVars, generationProgress, selectedForDownload, error,
                   editorVars, wizardVars, moreVars, envVars, events, lastBatch>>

\* ----- generate more ------------------------------------------------------
handleAddMoreClick ==
  /\ PageEvent /\ step = "preview"
  /\ Len(getAvailableTypes(generatedDocs)) > 0
  /\ ~isGeneratingMore
  /\ additionalOutputs' = << >>
  /\ showAddMoreModal' = TRUE
  /\ ev' = [kind |-> "ui"]
  /\ UNCHANGED <<step, formVars, docVars, error, editorVars, wizardVars,
                 regeneratingIndex, isGeneratingMore, generatingTypes, envVars, tasks, now, lastBatch>>

handleAdditionalOutputToggle ==
  /\ UserEvent /\ showAddMoreModal
  /\ \E id \in Range(getAvailableTypes(generatedDocs)) :
       additionalOutputs' = ToggleIn(additionalOutputs, id)
  /\ ev' = [kind |-> "ui"]
  /\ UNCHANGED <<step, formVars, docVars, error, editorVars, wizardVars,
                 regeneratingIndex, showAddMoreModal, isGeneratingMore, generatingTypes,
                 envVars, tasks, now, lastBatch>>

closeAddMoreModal ==
  /\ UserEvent /\ showAddMoreModal
  /\ showAddMoreModal' = FALSE
  /\ ev' = [kind |-> "ui"]
  /\ UNCHANGED <<step, formVars, docVars, error, editorVars, wizardVars,
                 regeneratingIndex, additionalOutputs, isGeneratingMore, generatingTypes,
                 envVars, tasks, now, lastBatch>>

\* faulty variant: setGeneratedDocs(newDocs), the new documents replace the list
ReplacedByNew(prev, newDocs) == newDocs

\* setGeneratedDocs(prev => [...prev, ...newDocs])
AppendedDocs(prev, newDocs) == prev \o newDocs

\* setSelectedForDownload(prev => prev plus currentCount + idx for every new doc)
SelectedWithNew(prev, currentCount, newDocs) ==
  prev \cup {currentCount + idx : idx \in Indices(newDocs)}

\* the tail of handleGenerateAdditional, after Promise.all has resolved
FinishMore(sel, results, currentCount, last) ==
  /\ generatedDocs' = AppendedDocs(generatedDocs, ToGeneratedDocs(results))
  /\ selectedForDownload' =
       SelectedWithNew(selectedForDownload, currentCount, ToGeneratedDocs(results))
  /\ additionalOutputs' = << >>
  /\ isGeneratingMore' = FALSE
  /\ generatingTypes' = << >>
  /\ ev' = [kind |-> "moreDone", sel |-> sel, results |-> results, last |-> last]

handleGenerateAdditional ==
  /\ UserEvent /\ showAddMoreModal
  /\ Len(additionalOutputs) > 0
  /\ showAddMoreModal' = FALSE
  /\ IF SendsRequest(hasApiKey)
     THEN /\ CanSuspend
          /\ isGeneratingMore' = TRUE
          /\ generatingTypes' = additionalOutputs
          /\ tasks' = SetTask(0,
               [kind |-> "more", sel |-> additionalOutputs, content |-> sourceContent,
                start |-> now, count |-> Len(generatedDocs),
                res |-> [i \in 1..Len(additionalOutputs) |-> Pending]])
          /\ ev' = [kind |-> "moreStart", sel |-> additionalOutputs, content |-> sourceContent]
          /\ UNCHANGED <<generatedDocs, selectedForDownload, additionalOutputs>>
     ELSE /\ FinishMore(additionalOutputs, RejectedAtOnce(additionalOutputs), Len(generatedDocs),
                          Len(additionalOutputs))
          /\ UNCHANGED tasks
  /\ UNCHANGED <<step, formVars, generationProgress, error, editorVars, wizardVars,
                 regeneratingIndex, envVars, now, lastBatch>>

MoreCallSettles ==
  \E k \in 1..Len(tasks) :
    /\ tasks[k].kind = "more"
    /\ now' = Tick
    /\ \E i \in 1..Len(tasks[k].sel), reply \in AppReplies :
         LET t == tasks[k]
             result == GenerationResult(t.sel[i],
                         generateTrainingDocument(t.sel[i], hasApiKey, reply), t.start, now')
             res == [t.res EXCEPT ![i] = result]
         IN /\ IsPending(t.res[i])
            /\ IF AllSettled(res)
               THEN /\ FinishMore(t.sel, res, t.count, i)
                    /\ tasks' = RemoveAt(tasks, k)
               ELSE /\ tasks' = [tasks EXCEPT ![k].res = res]
                    /\ ev' = [kind |-> "callSettled", type |-> t.sel[i]]
                    /\ UNCHANGED <<generatedDocs, selectedForDownload, additionalOutputs,
                                   isGeneratingMore, generatingTypes>>
    /\ UNCHANGED <<step, formVars, generationProgress, error, editorVars, wizardVars,
                   regeneratingIndex, showAddMoreModal, hasApiKey, multi, events, lastBatch>>

\* ----- generateMultipleDocuments called directly --------------------------
RECURSIVE DistinctSeqs(_)
DistinctSeqs(S) ==
  {<< >>} \cup UNION {{<<x>> \o s : s \in DistinctSeqs(S \ {x})} : x \in S}

MultiReturn(docTypes, settled, last) ==
  [pc |-> "returned", docTypes |-> docTypes, last |-> last,
   result |-> [i \in 1..Len(docTypes) |-> MultiResult(docTypes, settled, i)]]

appVars ==
  <<step, files, manualText, selectedOutputs, generatedDocs, error, editingIndex,
    isEditorOpen, generationProgress, selectedForDownload, wizardQuestions,
    sourceContent, showAnalysisModal, regeneratingIndex, showAddMoreModal,
    additionalOutputs, isGeneratingMore, generatingTypes, tasks, now, events, lastBatch>>

MultiCall ==
  /\ multi.pc \in {"idle", "returned"}
  /\ \E docTypes \in DistinctSeqs(OptionIds) :
       IF SendsRequest(hasApiKey) /\ Len(docTypes) > 0
       THEN multi' = [pc |-> "waiting", docTypes |-> docTypes,
                      settled |-> [i \in 1..Len(docTypes) |-> Pending]]
       ELSE multi' = MultiReturn(docTypes,
                       [i \in 1..Len(docTypes) |->
                          generateTrainingDocument(docTypes[i], hasApiKey, [body |-> ""])],
                       Len(docTypes))
  /\ ev' = [kind |-> "multiCall"]
  /\ UNCHANGED <<appVars, hasApiKey>>

MultiCallSettles ==
  /\ multi.pc = "waiting"
  /\ \E i \in 1..Len(multi.docTypes), reply \in ServiceReplies :
       LET settled == [multi.settled EXCEPT
                         ![i] = generateTrainingDocument(multi.docTypes[i], hasApiKey, reply)]
       IN /\ IsPending(multi.settled[i])
          /\ multi' = IF AllSettled(settled) THEN MultiReturn(multi.docTypes, settled, i)
                      ELSE [multi EXCEPT !.settled = settled]
  /\ ev' = [kind |-> "multiSettled"]
  /\ UNCHANGED <<appVars, hasApiKey>>

\* ----- specification ------------------------------------------------------
Next ==
  \/ handleFilesSelected
  \/ handleRemoveFile
  \/ setManualText
  \/ handleOutputToggle
  \/ handleCheckAll
  \/ handleGenerate
  \/ FilesRead
  \/ CategorizeSettles
  \/ DelayElapses
  \/ QuestionsSettle
  \/ handleWizardAnswerChange
  \/ handleSkipWizard
  \/ handleWizardContinue
  \/ BatchCallSettles
  \/ handleReset
  \/ toggleDownloadSelection
  \/ toggleSelectAll
  \/ handleOpenEditor
  \/ handleSaveEdit
  \/ closeEditor
  \/ handleRegenerateArtifact
  \/ RegenSettles
  \/ handleAddMoreClick
  \/ handleAdditionalOutputToggle
  \/ closeAddMoreModal
  \/ handleGenerateAdditional
  \/ MoreCallSettles
  \/ MultiCall
  \/ MultiCallSettles

Spec == Init /\ [][Next]_vars

\* ----- the App from a run that is generating more ---------------------------
\* The documents of the default batch, both calls succeeded, in selection order.
DefaultBatchDocs ==
  ToGeneratedDocs([i \in 1..Len(DefaultOutputs) |->
     GenerationResult(DefaultOutputs[i],
                      generateTrainingDocument(DefaultOutputs[i], TRUE, [body |-> "<p>doc</p>"]),
                      0, i)])

\* The state the App is in after: text 'Feature X launched' typed, Generate,
\* no question returned, both calls of the default batch succeeded, Generate
\* More Artifacts, email ticked, Generate.  The 'generate more' call is in
\* flight.  It is a state of Spec, reached there with events = 5.
GeneratingMoreStarted ==
  /\ step = "preview"
  /\ files = << >>
  /\ manualText = "Feature X launched"
  /\ selectedOutputs = DefaultOutputs
  /\ generatedDocs = DefaultBatchDocs
  /\ error = null
  /\ editingIndex = null
  /\ isEditorOpen = FALSE
  /\ generationProgress = MarkEach(ProcessingProgress(DefaultOutputs), DefaultOutputs)
  /\ selectedForDownload = Indices(DefaultBatchDocs)
  /\ wizardQuestions = << >>
  /\ sourceContent = Str("Feature X launched")
  /\ showAnalysisModal = FALSE
  /\ regeneratingIndex = null
  /\ showAddMoreModal = FALSE
  /\ additionalOutputs = <<"email">>
  /\ isGeneratingMore = TRUE
  /\ generatingTypes = <<"email">>
  /\ hasApiKey = TRUE
  /\ multi = [pc |-> "unused"]
  /\ tasks = <<Started([kind |-> "more", sel |-> <<"email">>,
                        content |-> Str("Feature X launched"),
                        start |-> 2, count |-> 2, res |-> <<Pending>>])>>
  /\ now = 2
  /\ lastBatch = [sel |-> DefaultOutputs, content |-> Str("Feature X launched")]
  /\ ev = [kind |-> "moreStart", sel |-> <<"email">>, content |-> Str("Feature X launched")]

\* the user events are counted from that state on
InitGeneratingMore == GeneratingMoreStarted /\ events = 0

NextApp ==
  \/ handleFilesSelected
  \/ handleRemoveFile
  \/ setManualText
  \/ handleOutputToggle
  \/ handleCheckAll
  \/ handleGenerate
  \/ FilesRead
  \/ CategorizeSettles
  \/ DelayElapses
  \/ QuestionsSettle
  \/ handleWizardAnswerChange
  \/ handleSkipWizard
  \/ handleWizardContinue
  \/ BatchCallSettles
  \/ handleReset
  \/ toggleDownloadSelection
  \/ toggleSelectAll
  \/ handleOpenEditor
  \/ handleSaveEdit
  \/ closeEditor
  \/ handleRegenerateArtifact
  \/ RegenSettles
  \/ handleAddMoreClick
  \/ handleAdditionalOutputToggle
  \/ closeAddMoreModal
  \/ handleGenerateAdditional
  \/ MoreCallSettles

SpecGeneratingMore == InitGeneratingMore /\ [][NextApp]_vars

\* ----- the generation client called directly --------------------------------
\* the calls of the client: the function and, for generateTrainingDocument,
\* the document type
ClientFunctions ==
  {[fn |-> "generateTrainingDocument", docType |-> t] : t \in OptionIds}
    \cup {[fn |-> "enhanceTextWithAI"], [fn |-> "cleanupContentWithAI"]}

ClientOutcome(f, hasKey, reply) ==
  IF f.fn = "generateTrainingDocument" THEN generateTrainingDocument(f.docType, hasKey, reply)
  ELSE IF f.fn = "enhanceTextWithAI" THEN enhanceTextWithAI(hasKey, reply)
  ELSE cleanupContentWithAI(hasKey, reply)

\* faulty variant: a failed request is sent once more
ClientCallRetrying(f, hasKey, replies) ==
  IF SendsRequest(hasKey) /\ ~ClientOutcome(f, hasKey, replies[1]).ok
  THEN [call |-> f, reply |-> replies[1], sent |-> 2,
        outcome |-> ClientOutcome(f, hasKey, replies[2])]
  ELSE [call |-> f, reply |-> replies[1], sent |-> IF SendsRequest(hasKey) THEN 1 ELSE 0,
        outcome |-> ClientOutcome(f, hasKey, replies[1])]

\* One call of a client function: replies are the answers the service would
\* give to successive requests; sent is the number of requests made
\* (client.chat.completions.create is called once, behind createClient, and
\* in no loop).
ClientCall(f, hasKey, replies) ==
  [call |-> f, reply |-> replies[1], sent |-> IF SendsRequest(hasKey) THEN 1 ELSE 0,
   outcome |-> ClientOutcome(f, hasKey, replies[1])]

InitClient ==
  /\ InitApp
  /\ hasApiKey \in BOOLEAN
  /\ multi = [pc |-> "client", calls |-> << >>]

ClientCalls ==
  /\ multi.pc = "client"
  /\ Len(multi.calls) < MaxCalls
  /\ \E f \in ClientFunctions, r1 \in ClientReplies, r2 \in ClientReplies :
       multi' = [multi EXCEPT !.calls = Append(@, ClientCall(f, hasApiKey, <<r1, r2>>))]
  /\ ev' = [kind |-> "clientCall"]
  /\ UNCHANGED <<appVars, hasApiKey>>

NextClient == ClientCalls

SpecClient == InitClient /\ [][NextClient]_vars

\* ----- the map callback of a batch, call by call ------------------------------
InitCallback ==
  /\ InitApp
  /\ hasApiKey \in BOOLEAN
  /\ multi = [pc |-> "callback", results |-> << >>]

\* one run of the callback of selectedOutputs.map: the call is made at time 0
\* and settles at time t with the reply of the service
CallbackSettles ==
  /\ multi.pc = "callback"
  /\ Len(multi.results) < MaxCalls
  /\ \E docType \in OptionIds, reply \in ClientReplies, t \in 0..MaxTime :
       multi' = [multi EXCEPT !.results =
                   Append(@, [reply |-> reply,
                              result |-> GenerationResult(docType,
                                           generateTrainingDocument(docType, hasApiKey, reply),
                                           0, t)])]
  /\ ev' = [kind |-> "callback"]
  /\ UNCHANGED <<appVars, hasApiKey>>

NextCallback == CallbackSettles

SpecCallback == InitCallback /\ [][NextCallback]_vars

\* ----- processFiles called directly ----------------------------------------
\* processFiles is called up to MaxRuns times on one list of files; multi holds
\* the list, the reads that fail in the running call, the promises of the
\* processFile calls, the order in which they settle, and a record per
\* returned call.
FileListsUpTo == UNION {[1..n -> Files] : n \in 0..MaxFiles}

\* the files of the list that processFile reads; only a read can fail
ReadIndices(list) == {i \in 1..Len(list) : ReadsFile(list[i])}

InitFiles ==
  /\ InitApp
  /\ hasApiKey = FALSE
  /\ \E list \in FileListsUpTo :
       multi = [pc |-> "filesIdle", list |-> list, runs |-> << >>]

FilesRun(fails, order, fileContents) ==
  [fails |-> fails, order |-> order, result |-> ProcessFilesResult(fileContents)]

\* files.map(processFile): every processFile call is started
ProcessFilesCalled ==
  /\ multi.pc \in {"filesIdle", "filesReturned"}
  /\ Len(multi.runs) < MaxRuns
  /\ \E fails \in SUBSET ReadIndices(multi.list) :
       multi' = IF Len(multi.list) = 0
                THEN [pc |-> "filesReturned", list |-> multi.list,
                      runs |-> Append(multi.runs, FilesRun(fails, << >>, << >>))]
                ELSE [pc |-> "filesReading", list |-> multi.list, runs |-> multi.runs,
                      fails |-> fails, order |-> << >>,
                      settled |-> [i \in 1..Len(multi.list) |-> Pending]]
  /\ ev' = [kind |-> "processFiles"]
  /\ UNCHANGED <<appVars, hasApiKey>>

\* one processFile call settles; Promise.all rejects with the first rejection
\* and resolves, in the order of the list, when the last call has resolved
ProcessFileSettles ==
  /\ multi.pc = "filesReading"
  /\ \E i \in 1..Len(multi.list) :
       LET fc == processFile(multi.list[i], i \in multi.fails)
           settled == [multi.settled EXCEPT ![i] = fc]
           order == Append(multi.order, i)
       IN /\ IsPending(multi.settled[i])
          /\ multi' = IF "rejected" \in DOMAIN fc
                      THEN [pc |-> "filesRejected", list |-> multi.list, runs |-> multi.runs]
                      ELSE IF AllSettled(settled)
                      THEN [pc |-> "filesReturned", list |-> multi.list,
                            runs |-> Append(multi.runs, FilesRun(multi.fails, order, settled))]
                      ELSE [multi EXCEPT !.settled = settled, !.order = order]
  /\ ev' = [kind |-> "processFile"]
  /\ UNCHANGED <<appVars, hasApiKey>>

NextFiles == ProcessFilesCalled \/ ProcessFileSettles

SpecFiles == InitFiles /\ [][NextFiles]_vars

\* ----- the review page: export ----------------------------------------------
\* filename.split('.')[0] on the modelled names
BaseName(name) ==
  CASE name \in {"notes.txt"} -> "notes"
    [] name = "empty.txt" -> "empty"
    [] name = "guide.pdf" -> "guide"
    [] name = "spec.docx" -> "spec"
    [] name = "old.xls" -> "old"
    [] name = "data.xlsx" -> "data"
    [] name = "shot.png" -> "shot"
    [] name = "config.json" -> "config"
    [] OTHER -> name

\* files[0]?.name.split('.')[0] || 'training-project'
ProjectName(fs) ==
  IF Len(fs) = 0 \/ BaseName(fs[1].name) = "" THEN "training-project"
  ELSE BaseName(fs[1].name)

\* faulty variant: every document is bundled, selected or not
SelectedDocsAll(docs, selected) == docs

\* generatedDocs.filter((_, index) => selectedForDownload.has(index))
SelectedDocs(docs, selected) ==
  LET at == SelectSeq([i \in 1..Len(docs) |-> i], LAMBDA i : (i - 1) \in selected)
  IN [n \in 1..Len(at) |-> docs[at[n]]]

\* how downloadAsZip, downloadSingleDocument and clipboard.writeText may end:
\* they succeed, or throw an error with or without a message
ExportOutcomes ==
  {[ok |-> TRUE], [ok |-> FALSE, message |-> "export failed"], [ok |-> FALSE, message |-> ""]}

\* err.message || fallback
MessageOr(outcome, fallback) == IF outcome.message = "" THEN fallback ELSE outcome.message

\* The handler as it is written: the page disables its button while nothing is
\* selected (App.tsx:1012), the handler checks the selection itself.
handleDownloadZip ==
  /\ PageEvent /\ step = "preview"
  /\ IF Cardinality(selectedForDownload) = 0
     THEN /\ error' = Some("Please select at least one document to download")
          /\ ev' = [kind |-> "zipRefused"]
          /\ UNCHANGED tasks
     ELSE /\ CanSuspend
          /\ tasks' = SetTask(0, [kind |-> "zip"])
          /\ ev' = [kind |-> "zipCalled",
                    docs |-> SelectedDocs(generatedDocs, selectedForDownload),
                    projectName |-> ProjectName(files)]
          /\ UNCHANGED error
  /\ UNCHANGED <<step, formVars, docVars, editorVars, wizardVars, regeneratingIndex,
                 moreVars, envVars, now, lastBatch>>

\* faulty variant: the selection is cleared once the archive is downloaded
ZipSettlesClearing ==
  /\ \E k \in 1..Len(tasks) :
       /\ tasks[k].kind = "zip"
       /\ tasks' = RemoveAt(tasks, k)
       /\ \E outcome \in ExportOutcomes :
            IF outcome.ok
            THEN /\ ev' = [kind |-> "zipDone"]
                 /\ selectedForDownload' = {}
                 /\ UNCHANGED error
            ELSE /\ error' = Some(MessageOr(outcome, "Failed to download ZIP file"))
                 /\ ev' = [kind |-> "zipFailed"]
                 /\ UNCHANGED selectedForDownload
  /\ UNCHANGED <<step, formVars, generatedDocs, generationProgress, editorVars, wizardVars,
                 regeneratingIndex, moreVars, envVars, now, lastBatch, events>>

\* downloadAsZip has settled
ZipSettles ==
  /\ \E k \in 1..Len(tasks) :
       /\ tasks[k].kind = "zip"
       /\ tasks' = RemoveAt(tasks, k)
       /\ \E outcome \in ExportOutcomes :
            IF outcome.ok
            THEN /\ ev' = [kind |-> "zipDone"]
                 /\ UNCHANGED error
            ELSE /\ error' = Some(MessageOr(outcome, "Failed to download ZIP file"))
                 /\ ev' = [kind |-> "zipFailed"]
  /\ UNCHANGED <<step, formVars, docVars, editorVars, wizardVars, regeneratingIndex,
                 moreVars, envVars, now, lastBatch, events>>

handleDownloadSingle ==
  /\ PageEvent /\ step = "preview"
  /\ \E index \in Indices(generatedDocs), outcome \in ExportOutcomes :
       /\ RowOperable(index)
       /\ IF outcome.ok
          THEN /\ ev' = [kind |-> "singleDownloaded", doc |-> generatedDocs[index + 1]]
               /\ UNCHANGED error
          ELSE /\ error' = Some(MessageOr(outcome, "Failed to download document"))
               /\ ev' = [kind |-> "singleFailed", doc |-> generatedDocs[index + 1]]
  /\ UNCHANGED <<step, formVars, docVars, editorVars, wizardVars, regeneratingIndex,
                 moreVars, envVars, tasks, now, lastBatch>>

\* navigator.clipboard.writeText(doc.content) is called
handleCopyHtml ==
  /\ PageEvent /\ step = "preview"
  /\ CanSuspend
  /\ \E index \in Indices(generatedDocs) :
       /\ RowOperable(index)
       /\ tasks' = SetTask(0, [kind |-> "copy"])
       /\ ev' = [kind |-> "copyCalled", text |-> generatedDocs[index + 1].content]
  /\ UNCHANGED <<step, formVars, docVars, error, editorVars, wizardVars, regeneratingIndex,
                 moreVars, envVars, now, lastBatch>>

\* the clipboard write has settled: a toast is shown, nothing else is set
CopySettles ==
  /\ \E k \in 1..Len(tasks) :
       /\ tasks[k].kind = "copy"
       /\ tasks' = RemoveAt(tasks, k)
  /\ \E outcome \in ExportOutcomes :
       ev' = [kind |-> "copySettled",
              toast |-> IF outcome.ok THEN "HTML copied to clipboard!"
                        ELSE "Failed to copy to clipboard"]
  /\ UNCHANGED <<step, formVars, docVars, error, editorVars, wizardVars, regeneratingIndex,
                 moreVars, envVars, now, lastBatch, events>>

ReviewOutputs == <<"release-notes", "training-guide", "email">>

ReviewResults ==
  [i \in 1..Len(ReviewOutputs) |->
     GenerationResult(ReviewOutputs[i],
                      generateTrainingDocument(ReviewOutputs[i], FALSE, [body |-> ""]), 0, 0)]

\* The state the App is in after: notes.txt chosen, email ticked, Generate,
\* without a credential (the three calls are rejected at once and the review
\* page lists the three documents, all selected).  It is a state of Spec,
\* reached there with events = 3.
ReviewStarted ==
  /\ step = "preview"
  /\ files = <<TextFile>>
  /\ manualText = ""
  /\ selectedOutputs = ReviewOutputs
  /\ generatedDocs = ToGeneratedDocs(ReviewResults)
  /\ error = null
  /\ editingIndex = null
  /\ isEditorOpen = FALSE
  /\ generationProgress = MarkEach(ProcessingProgress(ReviewOutputs), ReviewOutputs)
  /\ selectedForDownload = Indices(ReviewOutputs)
  /\ wizardQuestions = << >>
  /\ sourceContent = processFiles(<<TextFile>>)
  /\ showAnalysisModal = FALSE
  /\ regeneratingIndex = null
  /\ showAddMoreModal = FALSE
  /\ additionalOutputs = << >>
  /\ isGeneratingMore = FALSE
  /\ generatingTypes = << >>
  /\ hasApiKey = FALSE
  /\ multi = [pc |-> "unused"]
  /\ tasks = << >>
  /\ now = 0
  /\ lastBatch = [sel |-> ReviewOutputs, content |-> processFiles(<<TextFile>>)]
  /\ ev = [kind |-> "batchDone", sel |-> ReviewOutputs, results |-> ReviewResults,
           failed |-> 1..3, last |-> 3, origin |-> [from |-> "analysis", asked |-> << >>]]

\* the user events are counted from that state on
InitExport == ReviewStarted /\ events = 0

NextExport ==
  \/ toggleDownloadSelection
  \/ toggleSelectAll
  \/ handleDownloadZip
  \/ ZipSettles
  \/ handleDownloadSingle
  \/ handleCopyHtml
  \/ CopySettles

SpecExport == InitExport /\ [][NextExport]_vars

\* ----- the work item search proxy -------------------------------------------
\* the body of a request: every field of the form, '' or [] where it has no value
EmptyRequest ==
  [searchText |-> "", workItemType |-> "", workItemTypes |-> << >>, state |-> "",
   states |-> << >>, project |-> "", projects |-> << >>, iterationPath |-> "",
   assignedTo |-> "", createdBy |-> "", createdDateFrom |-> "", createdDateTo |-> "",
   changedDateFrom |-> "", changedDateTo |-> ""]

FieldValues ==
  [searchText |-> {"", " ", "O'Brien"},
   workItemType |-> {"", "Bug"},
   workItemTypes |-> {<< >>, <<"Bug">>, <<"Bug", "Task">>},
   state |-> {"", "Active"},
   states |-> {<< >>, <<"Active", "Closed">>},
   project |-> {"", "All Projects", "Alpha"},
   projects |-> {<< >>, <<"Alpha", "Beta">>},
   iterationPath |-> {"", "Sprint 1"},
   assignedTo |-> {"", "O'Brien"},
   createdBy |-> {"", "Lee"},
   createdDateFrom |-> {"", "2025-11-03"},
   createdDateTo |-> {"", "2025-11-03"},
   changedDateFrom |-> {"", "2025-11-03"},
   changedDateTo |-> {"", "2025-11-03"}]

\* the requests in which at most n fields carry a value
RECURSIVE RequestsUpTo(_)
RequestsUpTo(n) ==
  IF n = 0 THEN {EmptyRequest}
  ELSE UNION {{[r EXCEPT ![f] = v] : v \in FieldValues[f]} :
                <<r, f>> \in RequestsUpTo(n - 1) \X DOMAIN FieldValues}

SearchRequests == RequestsUpTo(MaxFields)

\* the days on which a request arrives
Todays == {"2026-11-03", "2024-02-29"}

\* oneYearAgo.setFullYear(year - 1), toISOString().split('T')[0] on those days:
\* 29 February of the year before does not exist and becomes 1 March
OneYearAgo(today) == IF today = "2024-02-29" THEN "2023-03-01" ELSE "2025-11-03"

\* s.replace(/'/g, "''") on the modelled texts
Escape(s) == IF s = "O'Brien" THEN "O''Brien" ELSE s

\* values.map(v => `[field] = 'v'`).join(' OR ')
RECURSIVE JoinOr(_, _)
JoinOr(field, values) ==
  IF Len(values) = 0 THEN << >>
  ELSE <<"[", field, "] = '", values[1], "'">>
         \o (IF Len(values) = 1 THEN << >> ELSE <<" OR ">> \o JoinOr(field, Tail(values)))

\* the condition of a single- or multi-select filter, if it has a value
EqualsAny(field, values) ==
  IF Len(values) = 0 THEN << >>
  ELSE IF Len(values) = 1 THEN <<JoinOr(field, values)>>
  ELSE << <<"(">> \o JoinOr(field, values) \o <<")">> >>

Compares(field, op, value) ==
  IF value = "" THEN << >> ELSE << <<"[", field, "] ", op, " '", value, "'">> >>

\* many && many.length > 0 ? many : (one ? [one] : [])
OneOrMany(many, one) == IF Len(many) > 0 THEN many ELSE IF one # "" THEN <<one>> ELSE << >>

\* the conditions of the filters of the request, in the order they are pushed
FilterConditions(r) ==
  EqualsAny("System.WorkItemType", OneOrMany(r.workItemTypes, r.workItemType))
    \o EqualsAny("System.TeamProject",
                 LET ps == OneOrMany(r.projects,
                                     IF r.project = "All Projects" THEN "" ELSE r.project)
                 IN [i \in 1..Len(ps) |-> Escape(ps[i])])
    \o (IF Trim(r.searchText) = "" THEN << >>
        ELSE Compares("System.Title", "CONTAINS", Escape(r.searchText)))
    \o EqualsAny("System.State", OneOrMany(r.states, r.state))
    \o Compares("System.IterationPath", "CONTAINS", Escape(r.iterationPath))
    \o Compares("System.AssignedTo", "CONTAINS", Escape(r.assignedTo))
    \o Compares("System.CreatedBy", "CONTAINS", Escape(r.createdBy))
    \o Compares("System.CreatedDate", ">=", r.createdDateFrom)
    \o Compares("System.CreatedDate", "<=", r.createdDateTo)
    \o Compares("System.ChangedDate", ">=", r.changedDateFrom)
    \o Compares("System.ChangedDate", "<=", r.changedDateTo)

DefaultWindow(today) == Compares("System.ChangedDate", ">=", OneYearAgo(today))

\* faulty variant: the window of the last 12 months is added to every query
ConditionsWindowed(r, today) == FilterConditions(r) \o DefaultWindow(today)

\* if (conditions.length === 0) the default window is the only condition
Conditions(r, today) ==
  IF Len(FilterConditions(r)) = 0 THEN DefaultWindow(today) ELSE FilterConditions(r)

\* `WHERE ${conditions.join(' AND ')}`
RECURSIVE JoinAnd(_)
JoinAnd(conditions) ==
  IF Len(conditions) = 0 THEN << >>
  ELSE conditions[1] \o (IF Len(conditions) = 1 THEN << >>
                         ELSE <<" AND ">> \o JoinAnd(Tail(conditions)))

WhereClause(conditions) == <<"WHERE ">> \o JoinAnd(conditions)

InitSearch ==
  /\ InitApp
  /\ hasApiKey = FALSE
  /\ \E r \in SearchRequests, today \in Todays :
       multi = [pc |-> "search", body |-> r, today |-> today]

\* the handler up to the WIQL request
SearchHandler ==
  /\ multi.pc = "search"
  /\ \E method \in {"POST", "GET"}, configured \in BOOLEAN :
       multi' =
         IF method # "POST"
         THEN [multi EXCEPT !.pc = "responded"] @@
                [status |-> 405, error |-> "Method not allowed"]
         ELSE IF ~configured
         THEN [multi EXCEPT !.pc = "responded"] @@
                [status |-> 500,
                 error |-> "ADO configuration missing. Please configure ADO_ORGANIZATION and ADO_PAT environment variables."]
         ELSE [multi EXCEPT !.pc = "querying"] @@
                [conditions |-> Conditions(multi.body, multi.today),
                 whereClause |-> WhereClause(Conditions(multi.body, multi.today)),
                 acrossProjects |-> multi.body.project \in {"", "All Projects"}]
  /\ ev' = [kind |-> "search"]
  /\ UNCHANGED <<appVars, hasApiKey>>

\* the WIQL request has settled: no work item, some work items, or an error
QueryReturns ==
  /\ multi.pc = "querying"
  /\ \E outcome \in {"none", "some", "failed"} :
       multi' = CASE outcome = "none" ->
                       [multi EXCEPT !.pc = "responded"] @@ [status |-> 200, count |-> 0]
                  [] outcome = "some" -> [multi EXCEPT !.pc = "fetching"]
                  [] outcome = "failed" ->
                       [multi EXCEPT !.pc = "responded"] @@
                         [status |-> 500, error |-> "Failed to search ADO work items"]
  /\ ev' = [kind |-> "queryReturned"]
  /\ UNCHANGED <<appVars, hasApiKey>>

\* the request for the details of the work items has settled
DetailsReturn ==
  /\ multi.pc = "fetching"
  /\ \E ok \in BOOLEAN :
       multi' = IF ok THEN [multi EXCEPT !.pc = "responded"] @@ [status |-> 200, count |-> 1]
                ELSE [multi EXCEPT !.pc = "responded"] @@
                       [status |-> 500, error |-> "Failed to search ADO work items"]
  /\ ev' = [kind |-> "detailsReturned"]
  /\ UNCHANGED <<appVars, hasApiKey>>

NextSearch == SearchHandler \/ QueryReturns \/ DetailsReturn

SpecSearch == InitSearch /\ [][NextSearch]_vars

\* ----- the App when every call settles and New Project is not used ----------
InitLive ==
  /\ InitApp
  /\ hasApiKey \in BOOLEAN
  /\ multi = [pc |-> "unused"]

NextLive ==
  \/ handleFilesSelected
  \/ handleRemoveFile
  \/ setManualText
  \/ handleOutputToggle
  \/ handleCheckAll
  \/ handleGenerate
  \/ FilesRead
  \/ CategorizeSettles
  \/ DelayElapses
  \/ QuestionsSettle
  \/ handleWizardAnswerChange
  \/ handleSkipWizard
  \/ handleWizardContinue
  \/ BatchCallSettles
  \/ toggleDownloadSelection
  \/ toggleSelectAll
  \/ handleOpenEditor
  \/ handleSaveEdit
  \/ closeEditor
  \/ handleRegenerateArtifact
  \/ RegenSettles
  \/ handleAddMoreClick
  \/ handleAdditionalOutputToggle
  \/ closeAddMoreModal
  \/ handleGenerateAdditional
  \/ MoreCallSettles

\* a request that was sent is answered or fails: a call in flight settles
SpecLive ==
  /\ InitLive
  /\ [][NextLive]_vars
  /\ WF_vars(BatchCallSettles)
  /\ WF_vars(MoreCallSettles)

\* ----- the issue-tracker import modal (components/ADOImportModal) ----------
\* a work item of a search result, by its id
WorkItem(id) == [id |-> id]

\* the work items with the ids of S, in the order of their ids
RECURSIVE ItemsOf(_)
ItemsOf(S) ==
  IF S = {} THEN << >>
  ELSE LET first == CHOOSE id \in S : \A other \in S : id <= other
       IN <<WorkItem(first)>> \o ItemsOf(S \ {first})

\* result.workItems of a search that succeeded: no work item twice
SearchResultLists == {ItemsOf(S) : S \in SUBSET (1..MaxWorkItems)}

\* searchResults.map(wi => wi.id)
IdsOf(items) == {items[i].id : i \in 1..Len(items)}

\* searchResults.filter(wi => selectedIds.has(wi.id))
selectedWorkItems(results, ids) == SelectSeq(results, LAMBDA wi : wi.id \in ids)

\* the set toggleSelection passes to setSelectedIds
ToggledIds(ids, workItemId) ==
  IF workItemId \in ids THEN ids \ {workItemId} ELSE ids \cup {workItemId}

\* the state of the component while App has not opened the modal; searches:
\* the calls of searchADOWorkItems in flight; imported: the argument of the
\* last onImport call
InitImport ==
  /\ InitApp
  /\ hasApiKey = FALSE
  /\ multi = [pc |-> "modal", isOpen |-> FALSE, isSearching |-> FALSE,
              searchResults |-> << >>, selectedIds |-> {}, error |-> null,
              viewingWorkItem |-> null, searches |-> 0, imported |-> null]

\* the controls of the modal under the work-item view
ModalEvent == multi.pc = "modal" /\ multi.isOpen /\ multi.viewingWorkItem = null

\* App: setShowADOImportModal(true), and the effect on isOpen
openImportModal ==
  /\ multi.pc = "modal" /\ ~multi.isOpen
  /\ multi' = [multi EXCEPT !.isOpen = TRUE, !.searchResults = << >>,
                            !.selectedIds = {}, !.error = null]
  /\ ev' = [kind |-> "modalOpened"]
  /\ UNCHANGED <<appVars, hasApiKey>>

\* the Cancel button, the close button and the overlay: onClose
closeImportModal ==
  /\ ModalEvent
  /\ multi' = [multi EXCEPT !.isOpen = FALSE]
  /\ ev' = [kind |-> "modalClosed"]
  /\ UNCHANGED <<appVars, hasApiKey>>

\* handleSearch up to its await; byKey: Enter in the search box, which
\* unlike the Search button is not disabled while a search is running
handleSearch ==
  /\ ModalEvent
  /\ multi.searches < MaxSearches
  /\ \E byKey \in BOOLEAN :
       /\ ~byKey => ~multi.isSearching
       /\ ev' = [kind |-> "searchStarted", byKey |-> byKey]
  /\ multi' = [multi EXCEPT !.isSearching = TRUE, !.error = null, !.searches = @ + 1]
  /\ UNCHANGED <<appVars, hasApiKey>>

\* handleSearch after searchADOWorkItems has settled
SearchSettles ==
  /\ multi.pc = "modal" /\ multi.searches > 0
  /\ \/ \E items \in SearchResultLists :
          multi' = [multi EXCEPT
                      !.searchResults = items,
                      !.error = IF Len(items) = 0
                                THEN Some("No work items found matching your search criteria")
                                ELSE @,
                      !.isSearching = FALSE, !.searches = @ - 1]
     \/ multi' = [multi EXCEPT
                    !.searchResults = << >>,
                    !.error = Some("Failed to search ADO work items"),
                    !.isSearching = FALSE, !.searches = @ - 1]
  /\ ev' = [kind |-> "searchSettled"]
  /\ UNCHANGED <<appVars, hasApiKey>>

\* the checkbox and the body of a result row, and the remove button of the
\* include list
toggleSelection ==
  /\ ModalEvent
  /\ \E workItemId \in IdsOf(multi.searchResults) :
       /\ multi.isSearching => workItemId \in multi.selectedIds
       /\ multi' = [multi EXCEPT !.selectedIds = ToggledIds(@, workItemId)]
  /\ ev' = [kind |-> "selectionToggled"]
  /\ UNCHANGED <<appVars, hasApiKey>>

handleSelectAll ==
  /\ ModalEvent
  /\ Len(multi.searchResults) > 0
  /\ Cardinality(multi.selectedIds) # Len(multi.searchResults)
  /\ multi' = [multi EXCEPT !.selectedIds = IdsOf(multi.searchResults)]
  /\ ev' = [kind |-> "selectedAll"]
  /\ UNCHANGED <<appVars, hasApiKey>>

handleDeselectAll ==
  /\ ModalEvent
  /\ Len(multi.searchResults) > 0
  /\ Cardinality(multi.selectedIds) # 0
  /\ multi' = [multi EXCEPT !.selectedIds = {}]
  /\ ev' = [kind |-> "deselectedAll"]
  /\ UNCHANGED <<appVars, hasApiKey>>

\* the view button of a result row: setViewingWorkItem(workItem)
viewWorkItem ==
  /\ ModalEvent /\ ~multi.isSearching
  /\ \E i \in 1..Len(multi.searchResults) :
       multi' = [multi EXCEPT !.viewingWorkItem = Some(multi.searchResults[i])]
  /\ ev' = [kind |-> "viewOpened"]
  /\ UNCHANGED <<appVars, hasApiKey>>

\* the Close button of the work-item view
closeView ==
  /\ multi.pc = "modal" /\ multi.isOpen /\ multi.viewingWorkItem # null
  /\ multi' = [multi EXCEPT !.viewingWorkItem = null]
  /\ ev' = [kind |-> "viewClosed"]
  /\ UNCHANGED <<appVars, hasApiKey>>

\* the Add to / Remove from Selection button of the work-item view
toggleFromView ==
  /\ multi.pc = "modal" /\ multi.isOpen /\ multi.viewingWorkItem # null
  /\ multi' = [multi EXCEPT
                 !.selectedIds = ToggledIds(@, TheValue(multi.viewingWorkItem).id),
                 !.viewingWorkItem = null]
  /\ ev' = [kind |-> "selectionToggled"]
  /\ UNCHANGED <<appVars, hasApiKey>>

\* the Import button, disabled while selectedIds is empty
handleImport ==
  /\ ModalEvent
  /\ Cardinality(multi.selectedIds) # 0
  /\ LET selected == selectedWorkItems(multi.searchResults, multi.selectedIds)
     IN /\ IF Len(selected) = 0
           THEN multi' = [multi EXCEPT
                            !.error = Some("Please select at least one work item to import")]
           ELSE multi' = [multi EXCEPT !.imported = Some(selected), !.isOpen = FALSE]
        /\ ev' = [kind |-> "importClicked", called |-> Len(selected) # 0,
                  selected |-> selected, size |-> Cardinality(multi.selectedIds)]
  /\ UNCHANGED <<appVars, hasApiKey>>

NextImport ==
  \/ openImportModal
  \/ closeImportModal
  \/ handleSearch
  \/ SearchSettles
  \/ toggleSelection
  \/ handleSelectAll
  \/ handleDeselectAll
  \/ viewWorkItem
  \/ closeView
  \/ toggleFromView
  \/ handleImport

SpecImport == InitImport /\ [][NextImport]_vars

\* ----- properties ---------------------------------------------------------
TypesOf(docs) == [i \in 1..Len(docs) |-> docs[i].type]

\* every type of sel tags exactly one entry, and no entry has another type
EachOnce(types, sel) ==
  /\ Len(types) = Len(sel)
  /\ \A t \in Range(sel) : Cardinality({i \in 1..Len(types) : types[i] = t}) = 1
  /\ \A i \in 1..Len(types) : types[i] \in Range(sel)

CompleteTypes == {t \in DOMAIN generationProgress : generationProgress[t] = "complete"}

\* C1: when a batch started by proceedWithGeneration for N >= 1 distinct types
\* has settled, generatedDocs holds exactly N entries and every requested type
\* tags exactly one of them, whichever calls failed; the array returned by
\* generateMultipleDocuments has the same shape.
C1_BatchYieldsEachTypeOnce ==
  /\ ev.kind = "batchDone" /\ Len(ev.sel) >= 1 =>
       EachOnce(TypesOf(generatedDocs), ev.sel)
  /\ multi.pc = "returned" /\ Len(multi.docTypes) >= 1 =>
       EachOnce(TypesOf(multi.result), multi.docTypes)

\* a batch of three types has settled with exactly its second call failed
C1_Witness ==
  /\ ev.kind = "batchDone"
  /\ Len(ev.sel) = 3
  /\ ev.failed = {2}

\* C2: when a call of a batch has failed, the settled batch is on the review
\* step, every selected type has status 'complete', the result of each failed
\* call carries a non-empty error and every other result has content and no error.
C2_IsolatedFailure ==
  ev.kind = "batchDone" /\ ev.failed # {} =>
    /\ step = "preview"
    /\ \A t \in Range(ev.sel) :
         t \in DOMAIN generationProgress /\ generationProgress[t] = "complete"
    /\ \A i \in 1..Len(ev.sel) :
         IF i \in ev.failed
         THEN HasError(ev.results[i])
         ELSE ~HasError(ev.results[i]) /\ ev.results[i].content # << >>

\* C3: in whichever order the calls of a batch settle, the i-th resulting entry
\* has the i-th selected type: for the documents of proceedWithGeneration, for
\* the documents handleGenerateAdditional appends, and for the array returned
\* by generateMultipleDocuments.
C3_Resequencing ==
  /\ ev.kind = "batchDone" => TypesOf(generatedDocs) = ev.sel
  /\ ev.kind = "moreDone" =>
       /\ Len(generatedDocs) >= Len(ev.sel)
       /\ SubSeq(TypesOf(generatedDocs), Len(generatedDocs) - Len(ev.sel) + 1,
                 Len(generatedDocs)) = ev.sel
  /\ multi.pc = "returned" => TypesOf(multi.result) = multi.docTypes

\* a 'generate more' batch of two types has settled, its first call last
C3_Witness ==
  /\ ev.kind = "moreDone"
  /\ hasApiKey
  /\ Len(ev.sel) = 2
  /\ ev.last = 1

\* C4: after a batch has settled (the initial one or a 'generate more' one), the
\* types with status 'complete' are exactly the types with an entry in generatedDocs.
C4_CompleteTypesAreDocumentTypes ==
  ev.kind \in {"batchDone", "moreDone"} => CompleteTypes = Range(TypesOf(generatedDocs))

\* C5: the step that completes the regeneration of index i leaves the length of
\* generatedDocs and every entry other than i as they were just before it, and
\* keeps the type and the filename of entry i.
C5_RegenerationChangesOnlyItsIndex ==
  [][ev'.kind = "regenDone" =>
       /\ Len(generatedDocs') = Len(generatedDocs)
       /\ \A j \in Indices(generatedDocs) :
            IF j = ev'.index
            THEN /\ generatedDocs'[j + 1].type = generatedDocs[j + 1].type
                 /\ generatedDocs'[j + 1].filename = generatedDocs[j + 1].filename
            ELSE generatedDocs'[j + 1] = generatedDocs[j + 1]]_vars

\* C6: the step that settles a 'generate more' batch makes generatedDocs the
\* list as it stood just before the step, every entry unchanged at its index,
\* followed by one new document per requested type.
C6_GenerateMoreAppends ==
  [][ev'.kind = "moreDone" =>
       /\ Len(generatedDocs') = Len(generatedDocs) + Len(ev'.sel)
       /\ SubSeq(generatedDocs', 1, Len(generatedDocs)) = generatedDocs
       /\ \A i \in 1..Len(ev'.sel) :
            generatedDocs'[Len(generatedDocs) + i].type = ev'.sel[i]]_vars

\* a 'generate more' batch has settled behind a document the user had edited
C6_Witness ==
  /\ ev.kind = "moreDone"
  /\ hasApiKey
  /\ \E i \in 1..(Len(generatedDocs) - Len(ev.sel)) : generatedDocs[i].content \in EditContents

\* C7: the calls of a 'generate more' batch receive the content that was passed
\* to the calls of the run's initial batch, 'Additional Context' included.
C7_GenerateMoreReusesBatchContent ==
  ev.kind = "moreStart" => ev.content = lastBatch.content

\* C8: the regeneration of a document of the initial batch calls the client
\* with the content that was passed to the calls of that batch.
C8_RegenerationReusesBatchContent ==
  /\ ev.kind = "regenStart"
  /\ ev.index < Len(lastBatch.sel)
  /\ ev.index < Len(generatedDocs)
  /\ generatedDocs[ev.index + 1].type = lastBatch.sel[ev.index + 1]
  => ev.content = lastBatch.content

\* C9: a settlement that follows handleReset, before any user event, leaves
\* step 'upload' and generatedDocs, generationProgress, sourceContent and
\* selectedForDownload empty.
C9_SettlementsAfterResetAreIgnored ==
  [][ev.kind = "reset" /\ events' = events =>
       /\ step' = "upload"
       /\ generatedDocs' = << >>
       /\ generationProgress' = EmptyProgress
       /\ sourceContent' = << >>
       /\ selectedForDownload' = {}]_vars

\* C10: right after handleReset the run's state is the initial one and none of
\* isGeneratingMore, generatingTypes, regeneratingIndex, showAnalysisModal is set.
C10_ResetDiscardsRunState ==
  [][ev'.kind = "reset" =>
       /\ step' = "upload"
       /\ sourceContent' = << >>
       /\ generatedDocs' = << >>
       /\ generationProgress' = EmptyProgress
       /\ wizardQuestions' = << >>
       /\ selectedForDownload' = {}
       /\ files' = << >>
       /\ manualText' = ""
       /\ error' = null
       /\ selectedOutputs' = DefaultOutputs
       /\ ~isGeneratingMore'
       /\ generatingTypes' = << >>
       /\ regeneratingIndex' = null
       /\ ~showAnalysisModal']_vars

\* the values step takes during the step just taken: a batch that is rejected
\* within the run that starts it passes through 'processing'
StepPath ==
  IF ev'.kind = "batchDone" /\ ev'.origin.from # "settled"
  THEN <<step, "processing", step'>>
  ELSE <<step, step'>>

StepChangeAllowed(a, b) ==
  \/ a = b
  \/ a = "upload" /\ b = "wizard" /\ ev'.kind = "wizardShown"
  \/ a = "upload" /\ b = "processing"
  \/ a = "wizard" /\ b = "processing"
  \/ a = "processing" /\ b = "preview"
  \/ a = "processing" /\ b = "upload"
  \/ b = "upload" /\ ev'.kind = "reset"

\* C11: step changes only from 'upload' to 'wizard' (when the analysis returns
\* questions) or to 'processing', from 'wizard' to 'processing', from
\* 'processing' to 'preview' or back to 'upload', and from anywhere to 'upload'
\* by handleReset.
C11_StepTransitions ==
  [][\A i \in 1..(Len(StepPath) - 1) : StepChangeAllowed(StepPath[i], StepPath[i + 1])]_vars

\* the batches of the current run: started and not followed by handleReset
CurrentBatches == {k \in 1..Len(tasks) : tasks[k].kind = "batch" /\ ~tasks[k].stale}

\* C12: a batch is started with one call per selected type, all in flight; it
\* is finished only when every call has settled; and while a call of the
\* current run's batch is in flight, step is 'processing', generatedDocs is not
\* written yet and the status of the call's type is 'processing'.
C12_WaitForAll ==
  /\ ev.kind = "batchStart" =>
       \E k \in 1..Len(tasks) :
         /\ tasks[k].kind = "batch" /\ tasks[k].sel = ev.sel
         /\ \A i \in 1..Len(ev.sel) : IsPending(tasks[k].res[i])
  /\ ev.kind = "batchDone" =>
       /\ Len(ev.results) = Len(ev.sel)
       /\ \A i \in 1..Len(ev.sel) : ~IsPending(ev.results[i])
  /\ \A k \in CurrentBatches :
       /\ step = "processing"
       /\ generatedDocs = << >>
       /\ \A i \in 1..Len(tasks[k].sel) :
            IsPending(tasks[k].res[i]) =>
              /\ tasks[k].sel[i] \in DOMAIN generationProgress
              /\ generationProgress[tasks[k].sel[i]] = "processing"

\* the batches (initial or 'generate more') with a call in flight
BatchesInFlight == {k \in 1..Len(tasks) : tasks[k].kind \in {"batch", "more"}}

\* C13: a batch, initial or 'generate more', is started only when no batch is
\* in flight, and a 'generate more' batch only on the review step while no
\* 'generate more' batch is running.
C13_OneBatchAtATime ==
  [][/\ ev'.kind \in {"batchStart", "moreStart"} => BatchesInFlight = {}
     /\ ev'.kind = "moreStart" => step = "preview" /\ ~isGeneratingMore]_vars

\* the configured types with no entry in generatedDocs
NotYetGenerated ==
  {t \in Range(DOCUMENT_OPTIONS) : \A i \in 1..Len(generatedDocs) : generatedDocs[i].type # t}

\* C14: the types ticked in the add-more modal, and the types a 'generate
\* more' batch is started for, are configured types with no entry in
\* generatedDocs; and generatedDocs never holds two entries of one type.
C14_NoTypeTwice ==
  /\ showAddMoreModal => Range(additionalOutputs) \subseteq NotYetGenerated
  /\ ev.kind = "moreStart" => Range(ev.sel) \subseteq NotYetGenerated
  /\ \A i, j \in 1..Len(generatedDocs) :
       generatedDocs[i].type = generatedDocs[j].type => i = j

\* the step is a run of handleGenerate up to its first await
IsHandleGenerate ==
  /\ step = "upload"
  /\ events' # events
  /\ ev'.kind \in {"refused", "analysis", "analysisFailed", "wizardShown",
                   "batchStart", "batchDone"}

\* at least one file, or a pasted text that is not blank
SourcePresent == Len(files) >= 1 \/ manualText \notin {"", " "}

\* C15: handleGenerate starts the analysis only when source content is present
\* and a type is selected; otherwise it sets an error message, issues no call
\* and leaves step, sourceContent and generatedDocs as they are.
C15_GenerateGuard ==
  [][IsHandleGenerate =>
       IF SourcePresent /\ Len(selectedOutputs) >= 1
       THEN ev'.kind # "refused"
       ELSE /\ ev'.kind = "refused"
            /\ error' # null
            /\ tasks' = tasks
            /\ lastBatch' = lastBatch
            /\ step' = step
            /\ sourceContent' = sourceContent
            /\ generatedDocs' = generatedDocs]_vars

\* handleGenerate has refused a pasted text of white space only
C15_Witness ==
  /\ ev.kind = "refused"
  /\ manualText = " "
  /\ files = << >>
  /\ Len(selectedOutputs) >= 1
  /\ error # null

\* C16: when the analysis has succeeded, the wizard step is entered if and
\* only if a question was returned, with one entry of empty answer per returned
\* question, in the returned order; with no question the batch is started
\* within the same step, and step never is 'wizard'.
C16_WizardIffQuestions ==
  [][/\ ev'.kind = "wizardShown" =>
          /\ Len(ev'.asked) >= 1
          /\ step' = "wizard"
          /\ Len(wizardQuestions') = Len(ev'.asked)
          /\ \A i \in 1..Len(ev'.asked) :
               /\ wizardQuestions'[i].question = ev'.asked[i]
               /\ wizardQuestions'[i].answer = ""
     /\ ev'.kind \in {"batchStart", "batchDone"} /\ ev'.origin.from = "analysis" =>
          /\ ev'.origin.asked = << >>
          /\ step' # "wizard"
          /\ wizardQuestions' = wizardQuestions]_vars

\* the analysis has returned two questions and the wizard shows them
C16_Witness ==
  /\ ev.kind = "wizardShown"
  /\ Len(ev.asked) = 2
  /\ step = "wizard"
  /\ Len(wizardQuestions) = 2

\* the questions of the wizard whose answer is not blank
Answered == {i \in 1..Len(wizardQuestions) : wizardQuestions[i].answer \notin {"", " "}}

\* the position of the section of question i behind the stored content
SectionStart(i) ==
  Len(sourceContent) + 1 + 5 * Cardinality({j \in Answered : j < i})

\* C17: 'skip' hands the stored sourceContent to the batch; 'continue' hands
\* it followed by the 'Additional Context' heading and one section per question
\* whose answer is not blank, in question order, and nothing else; so the stored
\* content is a prefix of the text handed over, and 'continue' without any
\* non-blank answer hands over what 'skip' does.
C17_WizardContent ==
  [][ev'.kind \in {"batchStart", "batchDone"} /\ ev'.origin.from \in {"skip", "continue"} =>
       LET given == lastBatch'.content
       IN IF ev'.origin.from = "skip" \/ Answered = {}
          THEN given = sourceContent
          ELSE /\ Len(given) = Len(sourceContent) + 1 + 5 * Cardinality(Answered)
               /\ SubSeq(given, 1, Len(sourceContent)) = sourceContent
               /\ given[Len(sourceContent) + 1] = "\n\n## Additional Context\n\n"
               /\ \A i \in Answered :
                    SubSeq(given, SectionStart(i) + 1, SectionStart(i) + 5) =
                      <<"**", wizardQuestions[i].question, "**\n",
                        wizardQuestions[i].answer, "\n\n">>]_vars

\* 'continue' has started a batch with the first answer blank and the second given
C17_Witness ==
  /\ ev.kind = "batchStart"
  /\ ev.origin.from = "continue"
  /\ Len(wizardQuestions) = 2
  /\ wizardQuestions[1].answer = " "
  /\ wizardQuestions[2].answer = "yes"
  /\ Len(ev.content) = Len(sourceContent) + 6

\* C18: once step is 'wizard', 'processing' or 'preview', no step other than
\* handleReset changes the stored sourceContent.
C18_SourceContentImmutable ==
  [][(step \in {"wizard", "processing", "preview"} /\ ev'.kind # "reset") =>
       sourceContent' = sourceContent]_vars

\* the message of the error generateTrainingDocument throws for a missing or
\* rejected credential
ConfigurationError ==
  <<"OpenAI API key is missing or invalid. Please check your environment variables.">>

C20_AtMostOneRequest ==
  multi.pc = "client" =>
    \A n \in 1..Len(multi.calls) :
      LET c == multi.calls[n]
      IN /\ c.sent <= 1
         /\ c.sent = 0 <=> ~hasApiKey
         /\ ~hasApiKey => ~c.outcome.ok /\ c.outcome.message = ConfigurationError
         /\ ("fail" \in DOMAIN c.reply \/ c.reply.body = "") =>
              ~c.outcome.ok /\ c.outcome.message # << >>
         /\ c.outcome.ok =>
              /\ hasApiKey
              /\ "body" \in DOMAIN c.reply
              /\ c.outcome.content = <<c.reply.body>>

\* with a credential, cleanupContentWithAI has made its request, which failed
C20_Witness ==
  /\ multi.pc = "client"
  /\ hasApiKey
  /\ \E n \in 1..Len(multi.calls) :
       /\ multi.calls[n].call.fn = "cleanupContentWithAI"
       /\ multi.calls[n].sent = 1
       /\ "fail" \in DOMAIN multi.calls[n].reply
       /\ ~multi.calls[n].outcome.ok

\* the call succeeds: the credential is there and the reply has a body that is
\* not empty
ReplySucceeds(reply) == hasApiKey /\ "body" \in DOMAIN reply /\ reply.body # ""

\* C21: every per-type result of a batch has exactly one of content and error:
\* after a successful call a content that is not empty and no error, otherwise
\* the empty content and an error message that is not empty; a reply with an
\* empty body gives a result of the second kind.
C21_ContentXorError ==
  multi.pc = "callback" =>
    \A n \in 1..Len(multi.results) :
      LET r == multi.results[n].result
      IN IF ReplySucceeds(multi.results[n].reply)
         THEN r.content # << >> /\ "error" \notin DOMAIN r
         ELSE r.content = << >> /\ "error" \in DOMAIN r /\ r.error # << >>

\* with a credential, a call was answered with an empty body
C21_Witness ==
  /\ multi.pc = "callback"
  /\ hasApiKey
  /\ \E n \in 1..Len(multi.results) :
       /\ multi.results[n].reply = [body |-> ""]
       /\ multi.results[n].result.content = << >>
       /\ multi.results[n].result.error # << >>

\* C22: when the clarifying-question call fails, the step that handles the
\* failure leaves step at 'upload', closes the analysis modal, sets a message
\* that is not empty as error, starts no batch and leaves generatedDocs and
\* generationProgress as they are.
C22_AnalysisFailureHalts ==
  [][ev'.kind = "analysisFailed" =>
       /\ step' = "upload"
       /\ ~showAnalysisModal'
       /\ error' # null
       /\ TheValue(error') # ""
       /\ lastBatch' = lastBatch
       /\ \A k \in 1..Len(tasks') : tasks'[k] \in Range(tasks)
       /\ generatedDocs' = generatedDocs
       /\ generationProgress' = generationProgress]_vars

\* the step is the one in which a failed categorization has come back
CategorizationFailed == "categorized" \in DOMAIN ev' /\ ev'.categorized = "failed"

ReadingFiles(ts) == {k \in 1..Len(ts) : ts[k].kind = "analysis" /\ ts[k].pc = "files"}

\* the step is the one in which the files of an analysis have been read
FilesHaveBeenRead ==
  /\ events' = events
  /\ Cardinality(ReadingFiles(tasks')) < Cardinality(ReadingFiles(tasks))

\* C24: handleGenerate reads the files whenever the file list is not empty,
\* pasted text or not, and the ingested content then is the combined content of
\* the files alone; the pasted text is the content exactly when there is no file.
C24_FilesBeforeText ==
  [][/\ (IsHandleGenerate /\ ev'.kind # "refused") =>
          IF Len(files) >= 1
          THEN /\ Len(tasks') = Len(tasks) + 1
               /\ tasks'[Len(tasks')].kind = "analysis"
               /\ tasks'[Len(tasks')].pc = "files"
               /\ tasks'[Len(tasks')].files = files
               /\ sourceContent' = sourceContent
          ELSE IF hasApiKey
          THEN /\ Len(tasks') = Len(tasks) + 1
               /\ tasks'[Len(tasks')].kind = "analysis"
               /\ tasks'[Len(tasks')].pc = "categorize"
               /\ tasks'[Len(tasks')].content = Str(manualText)
          ELSE sourceContent' = Str(manualText)
     /\ FilesHaveBeenRead =>
          \E k \in ReadingFiles(tasks) :
            IF hasApiKey
            THEN /\ Len(tasks') = Len(tasks)
                 /\ tasks'[k].pc = "categorize"
                 /\ tasks'[k].content = processFiles(tasks[k].files)
            ELSE sourceContent' = processFiles(tasks[k].files)]_vars

\* a file and a pasted text are both present and the content of the running
\* analysis is the content of the file alone
C24_Witness ==
  /\ Len(files) = 1
  /\ manualText = "Feature X launched"
  /\ \E k \in 1..Len(tasks) :
       /\ IsAt(k, "categorize")
       /\ ~tasks[k].stale
       /\ tasks[k].content = <<"=== ", "notes.txt", " ===\n\n", "Feature X launched", "\n\n">>

\* the content is one of the four placeholders, naming the file
IsPlaceholderFor(content, name) ==
  /\ Len(content) = 3
  /\ content[1] \in {"[PDF Document: ", "[Word Document: ", "[Excel Spreadsheet: ", "[Image: "}
  /\ content[2] = name

\* C25: processFiles never rejects; a call that has returned has one entry per
\* file of the list, in the order of the list, the entry of a file whose read
\* failed holding 'Error reading file: <name>' and every other entry the text
\* of its file or a placeholder naming it.
C25_OneEntryPerFile ==
  /\ multi.pc # "filesRejected"
  /\ multi.pc = "filesReturned" =>
       \A n \in 1..Len(multi.runs) :
         LET fcs == multi.runs[n].result.fileContents
         IN /\ Len(fcs) = Len(multi.list)
            /\ \A i \in 1..Len(fcs) :
                 /\ fcs[i].filename = multi.list[i].name
                 /\ IF i \in multi.runs[n].fails
                    THEN fcs[i].content = <<"Error reading file: ", multi.list[i].name>>
                    ELSE \/ fcs[i].content = Str(multi.list[i].text)
                         \/ IsPlaceholderFor(fcs[i].content, multi.list[i].name)

\* of two files the first could not be read and the second could
C25_Witness ==
  /\ multi.pc = "filesReturned"
  /\ multi.list = <<TextFile, OtherFile>>
  /\ \E n \in 1..Len(multi.runs) :
       /\ multi.runs[n].fails = {1}
       /\ multi.runs[n].result.fileContents[1].content = <<"Error reading file: ", "notes.txt">>
       /\ multi.runs[n].result.fileContents[2].content = <<"{}">>

\* the file is a plain-text file by its type or by its name
IsPlainText(file) == TypeIncludes(FileTypeOf(file), "text") \/ EndsWith(file.name, "txt")

\* C26: only the files that are plain text by type or name are read; the entry
\* of every other file, whatever its kind, is a placeholder naming the file.
C26_OnlyPlainTextIsRead ==
  multi.pc = "filesReturned" =>
    \A n \in 1..Len(multi.runs), i \in 1..Len(multi.list) :
      ~IsPlainText(multi.list[i]) =>
        /\ ~ReadsFile(multi.list[i])
        /\ IsPlaceholderFor(multi.runs[n].result.fileContents[i].content, multi.list[i].name)

\* the sections of a combined content carry the names of their files behind
\* the token that opens a section
HeaderNames(combinedContent) ==
  LET at == SelectSeq([j \in 1..Len(combinedContent) |-> j],
                      LAMBDA j : combinedContent[j] = "=== ")
  IN [n \in 1..Len(at) |-> combinedContent[at[n] + 1]]

RECURSIVE SelectedInOrder(_, _, _)
SelectedInOrder(docs, selected, from) ==
  IF from > Len(docs) THEN << >>
  ELSE (IF (from - 1) \in selected THEN <<docs[from]>> ELSE << >>)
         \o SelectedInOrder(docs, selected, from + 1)

\* C28: handleDownloadZip hands to downloadAsZip the documents whose index is
\* selected, each once and in the order of the list, and nothing else; with
\* nothing selected it calls nothing and sets an error message.
C28_ZipBundlesSelection ==
  [][/\ ev'.kind = "zipCalled" =>
          /\ selectedForDownload # {}
          /\ ev'.docs = SelectedInOrder(generatedDocs, selectedForDownload, 1)
          /\ Len(ev'.docs) = Cardinality(selectedForDownload \cap Indices(generatedDocs))
     /\ ev'.kind = "zipRefused" =>
          /\ selectedForDownload = {}
          /\ error' # null
          /\ TheValue(error') # ""
          /\ tasks' = tasks
     /\ (step = "preview" /\ events' # events /\ ev'.kind \in {"zipCalled", "zipRefused"}) =>
          (ev'.kind = "zipRefused" <=> selectedForDownload = {})]_vars

\* the first and the last of three documents are selected and are the two
\* documents handed to downloadAsZip
C28_Witness ==
  /\ ev.kind = "zipCalled"
  /\ Len(generatedDocs) = 3
  /\ selectedForDownload = {0, 2}
  /\ ev.docs = <<generatedDocs[1], generatedDocs[3]>>

\* C29: no step of handleCopyHtml, handleDownloadZip or handleDownloadSingle,
\* succeeding or failing, changes step, sourceContent, generatedDocs,
\* generationProgress, selectedOutputs or selectedForDownload.
C29_ExportLeavesPipeline ==
  [][ev'.kind \in {"zipRefused", "zipCalled", "zipDone", "zipFailed", "singleDownloaded",
                   "singleFailed", "copyCalled", "copySettled"} =>
       UNCHANGED <<step, sourceContent, generatedDocs, generationProgress,
                   selectedOutputs, selectedForDownload>>]_vars

\* the download of the archive has failed: the message is shown on the review
\* page, whose documents and selection are as they were
C29_Witness ==
  /\ ev.kind = "zipFailed"
  /\ error = Some("export failed")
  /\ step = "preview"
  /\ generatedDocs = ToGeneratedDocs(ReviewResults)
  /\ selectedForDownload = {1}

\* the filters of a request that carry a value to search for: a blank search
\* text and the project 'All Projects' are none
FiltersSupplied(r) ==
  {f \in {"iterationPath", "assignedTo", "createdBy", "createdDateFrom", "createdDateTo",
          "changedDateFrom", "changedDateTo"} : r[f] # ""}
    \cup (IF r.searchText \notin {"", " "} THEN {"searchText"} ELSE { })
    \cup (IF r.workItemTypes # << >> \/ r.workItemType # "" THEN {"type"} ELSE { })
    \cup (IF r.states # << >> \/ r.state # "" THEN {"state"} ELSE { })
    \cup (IF r.projects # << >> \/ r.project \notin {"", "All Projects"}
          THEN {"project"} ELSE { })

\* C30: a query that is sent has at least one condition; for a request without
\* any filter its only condition is the window of the last 12 months, and for a
\* request with filters it has one condition per filter and no window on top.
C30_DefaultWindowOnlyWithoutFilters ==
  (multi.pc \in {"querying", "fetching", "responded"} /\ "conditions" \in DOMAIN multi) =>
    /\ Len(multi.conditions) >= 1
    /\ multi.whereClause[1] = "WHERE "
    /\ Len(multi.whereClause) > 1
    /\ IF FiltersSupplied(multi.body) = {}
       THEN multi.conditions
              = << <<"[", "System.ChangedDate", "] ", ">=", " '",
                     IF multi.today = "2026-11-03" THEN "2025-11-03" ELSE "2023-03-01",
                     "'">> >>
       ELSE Len(multi.conditions) = Cardinality(FiltersSupplied(multi.body))

\* a request for all projects with a blank search text has been sent with the
\* window from 3 November 2025 on as its only condition
C30_Witness ==
  /\ multi.pc = "querying"
  /\ multi.today = "2026-11-03"
  /\ multi.body = [EmptyRequest EXCEPT !.project = "All Projects", !.searchText = " "]
  /\ multi.whereClause = <<"WHERE ", "[", "System.ChangedDate", "] ", ">=", " '", "2025-11-03", "'">>

\* the types whose call in a batch of the current run has not settled
TypesInFlight(ts) ==
  {ts[k].sel[i] : <<k, i>> \in {<<k, i>> \in (1..Len(ts)) \X (1..NumTypes) :
                                  /\ ts[k].kind = "batch"
                                  /\ ~ts[k].stale
                                  /\ i <= Len(ts[k].sel)
                                  /\ IsPending(ts[k].res[i])}}

\* C31: when a batch starts every selected type is 'processing'; a type stays
\* 'processing' while its call in the batch of the current run is in flight and
\* is 'complete' once that call has settled, failed or not; and within a run no
\* type that is 'complete' goes back.
C31_StatusLifecycle ==
  [][/\ ev'.kind = "batchStart" =>
          \A t \in Range(ev'.sel) : generationProgress'[t] = "processing"
     /\ \A t \in TypesInFlight(tasks') :
          t \in DOMAIN generationProgress' /\ generationProgress'[t] = "processing"
     /\ (ev'.kind = "callSettled" /\ \E k \in 1..Len(tasks) :
                                        tasks[k].kind = "batch" /\ tasks'[k] # tasks[k]) =>
          generationProgress'[ev'.type] = "complete"
     /\ ev'.kind \notin {"reset", "batchStart", "batchDone"} =>
          \A t \in CompleteTypes :
            t \in DOMAIN generationProgress' /\ generationProgress'[t] = "complete"]_vars

\* C32: a save of the editor changes nothing but the content of the document at
\* editingIndex: the list keeps its length, that document keeps its type,
\* filename, format, generatedAt and durationMs, every other document,
\* sourceContent and selectedForDownload are as before; with editingIndex =
\* null nothing is saved.
C32_SaveChangesContentOnly ==
  [][/\ ev'.kind = "editSaved" =>
          /\ editingIndex = Some(ev'.index)
          /\ Len(generatedDocs') = Len(generatedDocs)
          /\ ev'.index < Len(generatedDocs)
          /\ \A i \in 1..Len(generatedDocs) :
               IF i = ev'.index + 1
               THEN \A f \in {"type", "filename", "format", "generatedAt", "durationMs"} :
                      generatedDocs'[i][f] = generatedDocs[i][f]
               ELSE generatedDocs'[i] = generatedDocs[i]
          /\ sourceContent' = sourceContent
          /\ selectedForDownload' = selectedForDownload
     /\ (isEditorOpen /\ ~isEditorOpen' /\ editingIndex = null) =>
          generatedDocs' = generatedDocs]_vars

\* the second of two documents has been edited and saved: it holds the edited
\* content under its type, the first document is as generated
C32_Witness ==
  /\ ev.kind = "editSaved"
  /\ ev.index = 1
  /\ Len(generatedDocs) = 2
  /\ generatedDocs[2].content = <<"<p>edited</p>">>
  /\ generatedDocs[2].type = "training-guide"
  /\ generatedDocs[1].content = <<"<p>doc</p>">>
  /\ ~isEditorOpen

\* C33: when every call settles and New Project is not used, a batch that has
\* started leads to the review step with every type of the batch 'complete',
\* and a 'generate more' batch that is running leads to isGeneratingMore =
\* false with no generating type.
C33_BatchesEnd ==
  /\ (ev.kind = "batchStart") ~>
       (/\ step = "preview"
        /\ \A t \in Range(lastBatch.sel) :
             t \in DOMAIN generationProgress /\ generationProgress[t] = "complete")
  /\ isGeneratingMore ~> (~isGeneratingMore /\ generatingTypes = << >>)

\* both calls of a batch and then the call of a 'generate more' batch have
\* settled, with the service answering: the review step lists three documents
C33_Witness ==
  /\ ev.kind = "moreDone"
  /\ hasApiKey
  /\ step = "preview"
  /\ ~isGeneratingMore
  /\ generatingTypes = << >>
  /\ Len(lastBatch.sel) = 2
  /\ \A t \in Range(lastBatch.sel) : generationProgress[t] = "complete"
  /\ Len(generatedDocs) = 3

\* C34: selectedForDownload holds only indices of generatedDocs; the step
\* that ends an initial batch leaves it the full index set, and the step that
\* ends a 'generate more' batch leaves it the previous selection plus the
\* indices of the documents the batch appended
C34_SelectionValid ==
  /\ selectedForDownload \subseteq Indices(generatedDocs)
  /\ ev.kind = "batchDone" => selectedForDownload = Indices(generatedDocs)

\* C35: a regeneration whose call fails leaves generatedDocs as it is (no
\* error placeholder), sets no error banner, changes neither the step nor
\* the selection, and clears regeneratingIndex
C35_FailedRegenerationChangesNothing ==
  [][ev'.kind = "regenFailed" =>
        /\ generatedDocs' = generatedDocs
        /\ selectedForDownload' = selectedForDownload
        /\ error' = error
        /\ step' = step
        /\ regeneratingIndex' = null]_vars

\* the call of a regeneration in flight has failed: its task is gone and
\* the overlay is cleared
C35_Witness ==
  /\ ev.kind = "regenFailed"
  /\ hasApiKey
  /\ Len(generatedDocs) = 2
  /\ regeneratingIndex = null
  /\ tasks = << >>

\* the indices whose regeneration call is in flight
RegenerationsInFlight(ts) == {ts[k].index : k \in {j \in 1..Len(ts) : ts[j].kind = "regen"}}

\* C36: while a regeneration call is in flight regeneratingIndex is not null
\* and names an index being regenerated, and it is null exactly when no
\* regeneration is in flight
C36_OverlayTracksRegenerations ==
  /\ RegenerationsInFlight(tasks) # {} =>
       /\ regeneratingIndex # null
       /\ TheValue(regeneratingIndex) \in RegenerationsInFlight(tasks)
  /\ RegenerationsInFlight(tasks) = {} => regeneratingIndex = null

\* a selection of document types without a duplicate, of configured types only
IsTypeSelection(sel) ==
  /\ \A i, j \in 1..Len(sel) : sel[i] = sel[j] => i = j
  /\ Range(sel) \subseteq OptionIds

\* C37: selectedOutputs and additionalOutputs hold no type twice and only
\* types of DOCUMENT_OPTIONS, and handleCheckAll leaves the empty selection
\* when every type was selected and the full list otherwise
C37_SelectionsAreTypeSets ==
  /\ [](IsTypeSelection(selectedOutputs) /\ IsTypeSelection(additionalOutputs))
  /\ [][handleCheckAll =>
          selectedOutputs' = IF Range(selectedOutputs) = OptionIds THEN << >>
                             ELSE DOCUMENT_OPTIONS]_vars

\* the selection of the upload form was changed by two toggles, and a type
\* is ticked in the 'generate more' modal
C37_Witness ==
  /\ selectedOutputs = <<"release-notes", "email">>
  /\ showAddMoreModal
  /\ Len(additionalOutputs) = 1

\* C38: in the import modal every id of selectedIds is the id of a work
\* item of searchResults; a click on Import with a non-empty selectedIds
\* calls onImport with as many work items as selectedIds has ids and closes
\* the modal
C38_SelectedIdsAreResults ==
  multi.pc = "modal" =>
    /\ multi.selectedIds \subseteq IdsOf(multi.searchResults)
    /\ ev.kind = "importClicked" =>
         /\ ev.called
         /\ Len(ev.selected) = ev.size
         /\ multi.imported = Some(ev.selected)
         /\ ~multi.isOpen

\* the kind of document a file declares itself to be: by its MIME type, or
\* by the extension of its name when it has no type
DeclaresSpreadsheet(file) ==
  IF file.type # ""
  THEN file.type \in {"application/vnd.openxmlformats-officedocument.spreadsheetml.sheet",
                      "application/vnd.ms-excel"}
  ELSE EndsWith(file.name, "xlsx") \/ EndsWith(file.name, "xls")

DeclaresWordDocument(file) ==
  IF file.type # ""
  THEN file.type \in {"application/vnd.openxmlformats-officedocument.wordprocessingml.document",
                      "application/msword"}
  ELSE EndsWith(file.name, "docx") \/ EndsWith(file.name, "doc")

\* C39: processFile gives a file the placeholder of the kind it declares: a
\* file with a spreadsheet MIME type, or without a type and with a name on
\* .xlsx, gets the Excel placeholder, and a .docx file the Word placeholder
C39_PlaceholderOfDeclaredType ==
  multi.pc = "filesReturned" =>
    \A n \in 1..Len(multi.runs), i \in 1..Len(multi.list) :
      LET file == multi.list[i]
          content == multi.runs[n].result.fileContents[i].content
      IN /\ DeclaresSpreadsheet(file) =>
              content = Placeholder("excel", file.name)
         /\ DeclaresWordDocument(file) =>
              content = Placeholder("word", file.name)
====
